---- MODULE Spec2Model ----
(***************************************************************************)
(* A model of the three patch tools of claude-code-patches:                *)
(*   patch-thinking.js, patch-subagent-models.js,                          *)
(*   patch-npm-deprecation-warning.js.                                     *)
(*                                                                         *)
(* Text is a sequence of one-character strings.  A few tokens stand for a  *)
(* fixed run of characters of the bundle that the tools only ever handle   *)
(* as a whole (for instance "CR" for  case"redacted_thinking":  ); such a  *)
(* token has the byte length of the run it stands for (Width).  Positions  *)
(* are 1-based: position p here is JavaScript index p - 1, and NotFound is *)
(* JavaScript's -1.                                                        *)
(***************************************************************************)
EXTENDS Integers, Sequences, FiniteSets, TLC

VARIABLES
    target,       \* the content of the file at targetPath
    kind,         \* what detectClaudeTargetKind said of it: "js" or "native-binary"
    backup,       \* the file targetPath + '.backup': <<>> if absent, else <<its content>>
    sbackup,      \* the file targetPath + '.subagent-models.backup', likewise
    pc,           \* where the running tool is: "idle", "backup", "apply", "done"
    tool,         \* the tool that runs: "thinking", "subagent", "npm"
    isDryRun,     \* --dry-run was given
    isRestore,    \* --restore was given
    modelConfig,  \* patch-subagent-models: what getModelConfiguration returned
    content,      \* the content the run holds in memory
    plan,         \* what detection found ready to apply
    exitCode,     \* <<>> while the run is going, then <<its exit code>>
    threw,        \* the run ended on an uncaught Error
    wrote,        \* the run called writeFileSync on targetPath
    hist,         \* history: the target and the backup when this run started, and whether the
                  \* run follows a successful patch run of its tool (and what that one started from)
    runs,         \* number of runs started
    rule,         \* SpecReplace: the helper and the rule it is called with
    scanStr,      \* SpecScan: the string handed to findMatchingParen
    scanOpen,     \* SpecScan: openParenIndex (1-based)
    scanResult,   \* SpecScan: <<>> before the call, then <<what findMatchingParen returned>>
    probe,        \* SpecKind: the path given with --file and the file it names
    probeKind,    \* SpecKind: <<>> before the call, then <<what detectClaudeTargetKind returned>>
    configFiles,  \* SpecConfig: the two files getModelConfiguration looks for
    configWarned, \* SpecConfig: the files getModelConfiguration has warned about
    call,         \* SpecCall: a binary content and where its call with the key starts and ends
    callResult,   \* SpecCall: <<>> before the call, then <<what applyPatchToNativeBinary returned>>
    twin,         \* SpecPair: a second run of patch-thinking, told the opposite by the detectors
    npmIn,        \* SpecNpm: a content given to both patchers of patch-npm-deprecation-warning
    npmOut        \* SpecNpm: <<>> before the call, then <<what the patchers made of it>>

fileVars == <<target, kind, backup, sbackup>>
runVars == <<pc, tool, isDryRun, isRestore, modelConfig, content, plan, exitCode, threw, wrote, hist, runs>>
scanVars == <<scanStr, scanOpen, scanResult, probe, probeKind, configFiles, configWarned, call, callResult, twin, npmIn, npmOut>>
vars == <<fileVars, runVars, scanVars, rule>>

(***************************************************************************)
(* Bounds of the model.                                                    *)
(***************************************************************************)
MaxScanLen == 7
MaxRuns == 3
MaxReplLen == 3
MaxFileLen == 4
MaxFragments == 2

(***************************************************************************)
(* Values that are not text.                                               *)
(***************************************************************************)
NotFound == -1

(***************************************************************************)
(* Numbers of the source.                                                  *)
(***************************************************************************)
WindowSize == 2500       \* how far before the key patchOnce looks for '({'
PatchLoopBound == 5      \* how many times the npm tool calls patchOnce
DetectorGap == 1400      \* [\s\S]{0,1400}? of the already-patched heuristics
MaxBytes == 4096         \* how many bytes readFilePrefix reads

(***************************************************************************)
(* String helpers: String.prototype.indexOf / includes / slice.            *)
(***************************************************************************)
Max(a, b) == IF a > b THEN a ELSE b

\* s.slice(from - 1, to) in 1-based, inclusive positions from..to
Slice(s, from, to) == IF from > to THEN <<>> ELSE SubSeq(s, from, to)

MatchAt(s, pat, p) ==
    /\ p >= 1
    /\ p + Len(pat) - 1 <= Len(s)
    /\ \A k \in 1..Len(pat) : s[p + k - 1] = pat[k]

\* the least and the greatest of a set of positions, NotFound if it is empty
FirstOf(hits) == IF hits = {} THEN NotFound ELSE CHOOSE p \in hits : \A q \in hits : p <= q

LastOf(hits) == IF hits = {} THEN NotFound ELSE CHOOSE p \in hits : \A q \in hits : p >= q

\* s.indexOf(pat): the first position where pat occurs, NotFound if none
IndexOf(s, pat) == FirstOf({p \in 1..(Len(s) - Len(pat) + 1) : MatchAt(s, pat, p)})

\* s.lastIndexOf(pat)
LastIndexOf(s, pat) == LastOf({p \in 1..(Len(s) - Len(pat) + 1) : MatchAt(s, pat, p)})

Includes(s, pat) == IndexOf(s, pat) # NotFound

\* every string of at most n characters of the alphabet
RECURSIVE StringsUpTo(_, _)
StringsUpTo(alphabet, n) ==
    IF n = 0 THEN {<<>>}
    ELSE LET shorter == StringsUpTo(alphabet, n - 1)
         IN  shorter \cup {Append(s, c) : s \in {t \in shorter : Len(t) = n - 1}, c \in alphabet}

\* ' '.repeat(n)
Spaces(n) == [i \in 1..n |-> " "]

(***************************************************************************)
(* findMatchingParen (patch-npm-deprecation-warning.js, both copies).      *)
(* The source compares the one-character str[i] with a literal that is    *)
(* the two-character string made of two backslashes (EscapeLiteral).       *)
(***************************************************************************)
SQ == "sq"            \* the character '   (single quote)
DQ == "dq"            \* the character "   (double quote)
BT == "bt"            \* the character `   (backtick)
BS == "bs"            \* the character \   (one backslash)
EscapeLiteral == "bsbs"   \* the literal '\\\\' of the source: two backslashes

FindMatchingParen_IgnoreLiterals(str, openParenIndex) ==
    LET RECURSIVE Go(_, _)
        Go(i, depth) ==
            IF i > Len(str) THEN NotFound
            ELSE IF str[i] = "(" THEN Go(i + 1, depth + 1)
            ELSE IF str[i] = ")" THEN
                    IF depth - 1 = 0 THEN i ELSE Go(i + 1, depth - 1)
            ELSE Go(i + 1, depth)
    IN  Go(openParenIndex, 0)

FindMatchingParen(str, openParenIndex) ==
    LET RECURSIVE Go(_, _, _, _, _, _)
        Go(i, depth, inSingle, inDouble, inTemplate, escaped) ==
            IF i > Len(str) THEN NotFound
            ELSE LET ch == str[i] IN
                 IF escaped THEN Go(i + 1, depth, inSingle, inDouble, inTemplate, FALSE)
                 ELSE IF inSingle THEN
                    IF ch = EscapeLiteral THEN Go(i + 1, depth, inSingle, inDouble, inTemplate, TRUE)
                    ELSE IF ch = SQ THEN Go(i + 1, depth, FALSE, inDouble, inTemplate, escaped)
                    ELSE Go(i + 1, depth, inSingle, inDouble, inTemplate, escaped)
                 ELSE IF inDouble THEN
                    IF ch = EscapeLiteral THEN Go(i + 1, depth, inSingle, inDouble, inTemplate, TRUE)
                    ELSE IF ch = DQ THEN Go(i + 1, depth, inSingle, FALSE, inTemplate, escaped)
                    ELSE Go(i + 1, depth, inSingle, inDouble, inTemplate, escaped)
                 ELSE IF inTemplate THEN
                    IF ch = EscapeLiteral THEN Go(i + 1, depth, inSingle, inDouble, inTemplate, TRUE)
                    ELSE IF ch = BT THEN Go(i + 1, depth, inSingle, inDouble, FALSE, escaped)
                    ELSE Go(i + 1, depth, inSingle, inDouble, inTemplate, escaped)
                 ELSE IF ch = SQ THEN Go(i + 1, depth, TRUE, inDouble, inTemplate, escaped)
                 ELSE IF ch = DQ THEN Go(i + 1, depth, inSingle, TRUE, inTemplate, escaped)
                 ELSE IF ch = BT THEN Go(i + 1, depth, inSingle, inDouble, TRUE, escaped)
                 ELSE IF ch = "(" THEN Go(i + 1, depth + 1, inSingle, inDouble, inTemplate, escaped)
                 ELSE IF ch = ")" THEN
                    IF depth - 1 = 0 THEN i
                    ELSE Go(i + 1, depth - 1, inSingle, inDouble, inTemplate, escaped)
                 ELSE Go(i + 1, depth, inSingle, inDouble, inTemplate, escaped)
    IN  Go(openParenIndex, 0, FALSE, FALSE, FALSE, FALSE)

(***************************************************************************)
(* Tokens of the bundle and their byte lengths.                            *)
(*   V14  VERSION:"2.1.14"              CR  case"redacted_thinking":       *)
(*   CT   case"thinking":               RET "return "                      *)
(*   G14  if(!F&&!Z)return null;        G17 if(!X&&!E)return null;         *)
(*   Gab  if(!a&&!b)return null;        G3  if(!a&&!b&&!c)return null;     *)
(*   GX   if(!a||!b)return null;   (a gate no pattern of the tool matches) *)
(*   R14  return q3.createElement(ru2,{addMargin:Q});                      *)
(*   R17  return t9.createElement(j_1,{addMargin:A});                      *)
(*   Rab  return xx.createElement(yyy,{addMargin:z});                      *)
(*   P14  q3.createElement(zkA,{addMargin:Q,param:A,isTranscriptMode:      *)
(*   P17  t9.createElement(FKA,{addMargin:A,param:H,isTranscriptMode:      *)
(*   Pab  xx.createElement(yyy,{addMargin:z,param:w,isTranscriptMode:      *)
(*   VK   ,verbose:                     HK  ,hideInTranscript:             *)
(*   H14  F&&!(!C||z===C)   H17  X&&!(!K||J===K)   Hab  a&&!(!c||d===c)    *)
(*   END  })}                           OE  });                            *)
(*   BF   function ZT2({streamMode:A}){ BN  return null}                   *)
(*   BB   the rest of bannerSearchPattern_v2062 after BF                   *)
(*   PL   a3A={agentType:"Plan", ... ,baseDir:"built-in",model:"           *)
(*   EX   Complete the user's search request ... baseDir:"built-in",model:"*)
(*   EE   }});var a3A;                  GP  Y01={agentType:"general-purpose" *)
(*   GM   ,model:"                      GW  ,whenToUse:x                   *)
(*   KEY  key:"npm-deprecation-warning"                                    *)
(*   opus, haiku, sonnet, $&, void 0: these very characters                *)
(* Every other token is the one character it shows (SQ, DQ, BT, BS are     *)
(* the quote characters and the backslash).                                *)
(***************************************************************************)
Width(t) ==
    CASE t = "V14" -> 16 [] t = "CR" -> 24 [] t = "CT" -> 15 [] t = "RET" -> 7
      [] t \in {"G14", "G17", "Gab", "GX"} -> 22 [] t = "G3" -> 26
      [] t \in {"R14", "R17", "Rab"} -> 43
      [] t \in {"P14", "P17", "Pab"} -> 59
      [] t = "VK" -> 9 [] t = "HK" -> 18
      [] t \in {"H14", "H17", "Hab"} -> 15
      [] t = "END" -> 3 [] t = "OE" -> 3
      [] t = "BF" -> 29 [] t = "BN" -> 12 [] t = "BB" -> 532
      [] t = "PL" -> 168 [] t = "EX" -> 126 [] t = "EE" -> 12
      [] t = "GP" -> 32 [] t = "GM" -> 8 [] t = "GW" -> 12
      [] t = "KEY" -> 29
      [] t = "opus" -> 4 [] t = "haiku" -> 5 [] t = "sonnet" -> 6
      [] t \in {"$&", "!0", "!1"} -> 2 [] t = "void" -> 4
      [] OTHER -> 1

\* what the tokens at the positions wide add to the length of s beyond one
\* character each
RECURSIVE ExtraWidth(_, _)
ExtraWidthAt(s, wide, k) == Width(s[k]) - 1 + ExtraWidth(s, wide \ {k})

ExtraWidth(s, wide) ==
    IF wide = {} THEN 0 ELSE ExtraWidthAt(s, wide, CHOOSE k \in wide : TRUE)

ByteLen(s) == Len(s) + ExtraWidth(s, {k \in 1..Len(s) : Width(s[k]) # 1})

(***************************************************************************)
(* Token classes: what the character classes of the tool's regular         *)
(* expressions accept.                                                     *)
(***************************************************************************)
Idents == {"F", "Z", "X", "E", "a", "b"}            \* [$\w]+
Gate2 == {"G14", "G17", "Gab"}                      \* if\(![$\w]+&&![$\w]+\)return null;
Gate23 == Gate2 \cup {"G3"}                         \* ... with (?:&&![$\w]+)?
GateLike == Gate23 \cup {"GX"}                      \* anything that starts with if(!
RedactedReturn == {"R14", "R17", "Rab"}             \* return [$\w]+\.createElement\([$\w]+,\{addMargin:[$\w]+\}\);
CreatePrefix == {"P14", "P17", "Pab"}               \* [$\w]+\.createElement\( ... isTranscriptMode:
HideValue == {"H14", "H17", "Hab", "!1"}            \* [^}]+ and [^,}]+

(***************************************************************************)
(* Results of the replacement helpers: a string, null, or a thrown Error.  *)
(***************************************************************************)
Null == [null |-> TRUE, str |-> <<>>]
Some(s) == [null |-> FALSE, str |-> s]
Thrown == [threw |-> TRUE, out |-> <<>>, count |-> 0]
Ok(s, n) == [threw |-> FALSE, out |-> s, count |-> n]

padRightSpaces_NoCheck(str, targetLen) ==
    IF ByteLen(str) >= targetLen THEN Some(str)
    ELSE Some(str \o Spaces(targetLen - ByteLen(str)))

padRightSpaces(str, targetLen) ==
    IF ByteLen(str) > targetLen THEN Null
    ELSE IF ByteLen(str) = targetLen THEN Some(str)
    ELSE Some(str \o Spaces(targetLen - ByteLen(str)))

\* the special replacement pattern $& of String.prototype.replace
RECURSIVE ExpandDollar(_, _)
ExpandDollar(replacement, matched) ==
    IF replacement = <<>> THEN <<>>
    ELSE (IF Head(replacement) = "$&" THEN matched ELSE <<Head(replacement)>>)
         \o ExpandDollar(Tail(replacement), matched)

\* source.replace(search, replacement) with a string search
\* source with the Len(search) characters at idx replaced by text
Splice(source, idx, search, text) ==
    IF idx = NotFound THEN source
    ELSE Slice(source, 1, idx - 1) \o text \o Slice(source, idx + Len(search), Len(source))

StringReplace(source, search, replacement) ==
    Splice(source, IndexOf(source, search), search, ExpandDollar(replacement, search))

\* replaceOnceExact without out.fill(0x20, ...)
replaceOnceExact_NoFill(isNativeBinary, source, search, replacement) ==
    IF ~isNativeBinary THEN Ok(StringReplace(source, search, replacement), 1)
    ELSE IF ByteLen(replacement) > ByteLen(search) THEN Thrown
    ELSE IF ~Includes(source, search) THEN Ok(source, 0)
    ELSE Ok(Splice(source, IndexOf(source, search), search, replacement), 1)

replaceOnceExact(isNativeBinary, source, search, replacement) ==
    IF ~isNativeBinary THEN Ok(StringReplace(source, search, replacement), 1)
    ELSE IF ByteLen(replacement) > ByteLen(search) THEN Thrown
    ELSE IF ~Includes(source, search) THEN Ok(source, 0)
    ELSE Ok(Splice(source, IndexOf(source, search), search,
                   replacement \o Spaces(ByteLen(search) - ByteLen(replacement))), 1)

(***************************************************************************)
(* Regular expressions over tokens.  A regex is [pat, global]: pat[k] is   *)
(* the set of tokens its k-th part accepts.  A replacer is a template:     *)
(* each item is a literal token (g = 0) or the token that part g matched.  *)
(***************************************************************************)
Lit(t) == [g |-> 0, t |-> t]
Grp(n) == [g |-> n, t |-> ""]

RxMatchAt(s, pat, p) ==
    /\ p >= 1
    /\ p + Len(pat) - 1 <= Len(s)
    /\ \A k \in 1..Len(pat) : s[p + k - 1] \in pat[k]

RxSearch(s, pat, from) == FirstOf({p \in from..(Len(s) - Len(pat) + 1) : RxMatchAt(s, pat, p)})

RxTest(s, pat) == RxSearch(s, pat, 1) # NotFound

Build(tpl, m) == [k \in 1..Len(tpl) |-> IF tpl[k].g = 0 THEN tpl[k].t ELSE m[tpl[k].g]]

\* source.replace(regex, replacer); with pad, each replacement goes through
\* padRightSpaces(replacement, match.length) and null throws
\* what the replacer callback returns for the match m
Replaced(tpl, pad, m) ==
    IF pad THEN padRightSpaces(Build(tpl, m), ByteLen(m)) ELSE Some(Build(tpl, m))

\* the text in front of the match, its replacement, and the replaced rest
RxJoin(before, padded, rest) ==
    IF padded.null \/ rest.threw THEN Thrown
    ELSE Ok(before \o padded.str \o rest.out, rest.count + 1)

RECURSIVE RxReplaceFrom(_, _, _, _, _)
\* the match at p, the first one at or behind from
RxReplaceAt(s, rx, tpl, pad, from, p) ==
    IF p = NotFound THEN Ok(Slice(s, from, Len(s)), 0)
    ELSE RxJoin(Slice(s, from, p - 1),
                Replaced(tpl, pad, SubSeq(s, p, p + Len(rx.pat) - 1)),
                IF rx.global THEN RxReplaceFrom(s, rx, tpl, pad, p + Len(rx.pat))
                ELSE Ok(Slice(s, p + Len(rx.pat), Len(s)), 0))

RxReplaceFrom(s, rx, tpl, pad, from) ==
    RxReplaceAt(s, rx, tpl, pad, from, RxSearch(s, rx.pat, from))

\* sourceIsBuffer: the source is a Buffer, which is how patch-thinking reads
\* a native binary
replaceRegexPreserveLength(isNativeBinary, sourceIsBuffer, source, rx, tpl) ==
    IF ~isNativeBinary THEN RxReplaceFrom(source, rx, tpl, FALSE, 1)
    ELSE IF sourceIsBuffer THEN Thrown
    ELSE RxReplaceFrom(source, rx, tpl, TRUE, 1)

replaceRegexPreserveLengthNativeString(source, rx, tpl) ==
    RxReplaceFrom(source, rx, tpl, TRUE, 1)

(***************************************************************************)
(* patch-thinking.js: the rule table.  Of the version rules, which all     *)
(* have the shape of these, the model carries the banner rule, the two     *)
(* call-site rules of v2.1.14 with their regex fallback, the two native    *)
(* rules of v2.1.17 and the generic native regex fallback.                 *)
(***************************************************************************)
bannerSearchPattern_v2062 == <<"BF", "BB">>
bannerReplacement_v2062 == <<"BF", "BN">>

redactedThinkingCallsiteSearchPattern_v21114 == <<"CR", "G14", "R14">>
\* a replacement that would leave a gate at the call site
redactedThinkingCallsiteReplacement_StillGated == <<"CR", "Gab", "R14">>

redactedThinkingCallsiteReplacement_v21114 == <<"CR", "R14">>
thinkingCallsiteSearchPattern_v21114 ==
    <<"CT", "{", "G14", "RET", "P14", "F", "VK", "Z", "HK", "H14", "END">>
thinkingCallsiteReplacement_v21114 ==
    <<"CT", "{", "RET", "P14", "!0", "VK", "Z", "HK", "!1", "END">>

redactedThinkingCallsiteSearchPattern_v21117_native == <<"CR", "G17", "R17">>
redactedThinkingCallsiteReplacement_v21117_native == <<"CR", "R17">>
thinkingCallsiteSearchPattern_v21117_native ==
    <<"CT", "{", "G17", "RET", "P17", "X", "VK", "E", "HK", "H17", "END">>
thinkingCallsiteReplacement_v21117_native ==
    <<"CT", "{", "RET", "P17", "!0", "VK", "E", "HK", "!1", "END">>

VERSION_2_1_14 == <<"V14">>

redactedThinkingCallsiteRegex_v21114 ==
    [pat |-> <<{"CR"}, Gate2, RedactedReturn>>, global |-> FALSE]
redactedThinkingCallsiteReplacer_KeepGate == <<Grp(1), Grp(2), Grp(3)>>

\* (_m, casePrefix, returnExpr) => `${casePrefix}${returnExpr}`
redactedThinkingCallsiteReplacer == <<Grp(1), Grp(3)>>
thinkingCallsiteRegex_v21114 ==
    [pat |-> <<{"CT"}, {"{"}, Gate2, {"RET"}, CreatePrefix, Idents, {"VK"}, Idents,
               {"HK"}, HideValue, {"END"}>>, global |-> FALSE]
thinkingCallsiteReplacer ==
    <<Grp(1), Lit("{"), Lit("RET"), Grp(5), Lit("!0"), Grp(7), Grp(8), Grp(9),
      Lit("!1"), Lit("END")>>

nativeRedactedThinkingCallsiteRegex_noBraces ==
    [pat |-> <<{"CR"}, Gate23, RedactedReturn>>, global |-> TRUE]
nativeRedactedThinkingCallsiteRegex_withBraces ==
    [pat |-> <<{"CR"}, {"{"}, Gate23, RedactedReturn, {"}"}>>, global |-> TRUE]
nativeRedactedWithBracesReplacer == <<Grp(1), Lit("{"), Grp(4), Lit("}")>>
nativeThinkingCallsiteRegex_newFormat ==
    [pat |-> <<{"CT"}, {"{"}, Gate23, {"RET"}, CreatePrefix, Idents, {"VK"}, Idents,
               {"HK"}, HideValue, {"END"}>>, global |-> TRUE]
nativeThinkingNewFormatReplacer ==
    <<Grp(1), Lit("{"), Lit("RET"), Grp(5), Lit("!0"), Grp(7), Grp(8), Grp(9),
      Lit("!1"), Grp(11)>>
nativeThinkingCallsiteRegex_oldFormat ==
    [pat |-> <<{"CT"}, Gate23, {"RET"}, CreatePrefix, Idents, {"VK"}, Idents, {"OE"}>>,
     global |-> TRUE]
nativeThinkingOldFormatReplacer ==
    <<Grp(1), Grp(3), Grp(4), Lit("!0"), Grp(6), Grp(7), Grp(8)>>

\* r, if it threw; else what Op makes of its output
Bind(r, Op(_)) == IF r.threw THEN Thrown ELSE Op(r.out)

NoRegexPatches == [threw |-> TRUE, out |-> <<>>, steps |-> {}]

\* if (regex.test(source)) { source = replaceRegexPreserveLength(...); steps.push(...) }
RegexStep14(isNativeBinary, source, rx, tpl) ==
    IF RxTest(source, rx.pat)
    THEN replaceRegexPreserveLength(isNativeBinary, isNativeBinary, source, rx, tpl)
    ELSE Ok(source, 0)

\* return { source, steps }
RegexPatches14Result(hit1, hit2, r2) ==
    IF r2.threw THEN NoRegexPatches
    ELSE [threw |-> FALSE, out |-> r2.out,
          steps |-> (IF hit1 THEN {"v2.1.14 redacted_thinking call site (regex)"} ELSE {})
              \cup (IF hit2 THEN {"v2.1.14 thinking call site (regex)"} ELSE {})]

\* the thinking call site, after the redacted_thinking one gave r1
RegexPatches14Thinking(isNativeBinary, hit1, r1) ==
    IF r1.threw THEN NoRegexPatches
    ELSE RegexPatches14Result(hit1, RxTest(r1.out, thinkingCallsiteRegex_v21114.pat),
             RegexStep14(isNativeBinary, r1.out, thinkingCallsiteRegex_v21114,
                         thinkingCallsiteReplacer))

applyRegexPatches_v21114(isNativeBinary, source) ==
    RegexPatches14Thinking(isNativeBinary,
        RxTest(source, redactedThinkingCallsiteRegex_v21114.pat),
        RegexStep14(isNativeBinary, source, redactedThinkingCallsiteRegex_v21114,
                    redactedThinkingCallsiteReplacer))

detectNativeRegexPatches(text) ==
    (IF /\ Includes(text, <<"CR">>)
        /\ \/ RxTest(text, nativeRedactedThinkingCallsiteRegex_noBraces.pat)
           \/ RxTest(text, nativeRedactedThinkingCallsiteRegex_withBraces.pat)
     THEN {"native redacted_thinking call site (regex)"} ELSE {})
    \cup
    (IF /\ Includes(text, <<"CT">>)
        /\ \/ RxTest(text, nativeThinkingCallsiteRegex_newFormat.pat)
           \/ RxTest(text, nativeThinkingCallsiteRegex_oldFormat.pat)
     THEN {"native thinking call site (regex)"} ELSE {})

NoNativeRegexPatches == [threw |-> TRUE, out |-> <<>>, steps |-> 0]

\* if (replacedCount > 0) { text = out; steps.push(...) }
NativeRegexKeep(acc, r) ==
    IF r.threw THEN NoNativeRegexPatches
    ELSE IF r.count > 0 THEN [threw |-> FALSE, out |-> r.out, steps |-> acc.steps + 1]
    ELSE acc

\* one block of applyNativeRegexPatches, after the blocks in front of it gave acc
NativeRegexBlock(acc, rx, tpl) ==
    IF acc.threw THEN acc
    ELSE NativeRegexKeep(acc, replaceRegexPreserveLengthNativeString(acc.out, rx, tpl))

\* if (patched.length !== sourceBuf.length) throw new Error(...)
NativeRegexSizeCheck(sourceBuf, r) ==
    IF r.threw THEN r
    ELSE IF ByteLen(r.out) # ByteLen(sourceBuf) THEN NoNativeRegexPatches
    ELSE r

applyNativeRegexPatches(sourceBuf) ==
    NativeRegexSizeCheck(sourceBuf,
      NativeRegexBlock(
        NativeRegexBlock(
          NativeRegexBlock(
            NativeRegexBlock([threw |-> FALSE, out |-> sourceBuf, steps |-> 0],
                nativeRedactedThinkingCallsiteRegex_noBraces, redactedThinkingCallsiteReplacer),
            nativeRedactedThinkingCallsiteRegex_withBraces, nativeRedactedWithBracesReplacer),
          nativeThinkingCallsiteRegex_newFormat, nativeThinkingNewFormatReplacer),
        nativeThinkingCallsiteRegex_oldFormat, nativeThinkingOldFormatReplacer))

\* /case"thinking":\{ ... isTranscriptMode:!0 ... hideInTranscript:!1/ or the
\* same behind case"thinking":return, each gap at most DetectorGap characters
hasPatchedThinking(text) ==
    \E p \in {i \in 1..(Len(text) - 1) : text[i] = "CT" /\ text[i + 1] \in {"{", "RET"}} :
      \E q \in {i \in (p + 2)..(Len(text) - 1) : text[i] \in CreatePrefix /\ text[i + 1] = "!0"} :
        \E r \in {i \in (q + 2)..(Len(text) - 1) : text[i] = "HK" /\ text[i + 1] = "!1"} :
            /\ ByteLen(Slice(text, p + 2, q - 1)) <= DetectorGap
            /\ ByteLen(Slice(text, q + 2, r - 1)) <= DetectorGap

\* /case"redacted_thinking":\{?return ... addMargin:/ and not
\* /case"redacted_thinking":\{?if\(!/
hasUnGatedRedacted(text) ==
    /\ \E p \in 1..(Len(text) - 1) :
          /\ text[p] = "CR"
          /\ \/ text[p + 1] \in RedactedReturn
             \/ /\ p + 2 <= Len(text)
                /\ text[p + 1] = "{" /\ text[p + 2] \in RedactedReturn
    /\ ~ \E p \in 1..(Len(text) - 1) :
          /\ text[p] = "CR"
          /\ \/ text[p + 1] \in GateLike
             \/ /\ p + 2 <= Len(text)
                /\ text[p + 1] = "{" /\ text[p + 2] \in GateLike

detectNativeAlreadyPatched(sourceBuf) == hasPatchedThinking(sourceBuf) \/ hasUnGatedRedacted(sourceBuf)

detectJsAlreadyPatched(sourceText) == hasPatchedThinking(sourceText) \/ hasUnGatedRedacted(sourceText)

\* one exact rule of the detection: ready, already applied (no step), or the
\* regex fallback of its version on a JS target
DetectExact14(c, isNativeBinary, search, replacement, step, regexStep) ==
    IF Includes(c, search) THEN {step}
    ELSE IF Includes(c, replacement) THEN {}
    ELSE IF ~isNativeBinary /\ Includes(c, VERSION_2_1_14)
         THEN {regexStep} \cap applyRegexPatches_v21114(isNativeBinary, c).steps
    ELSE {}

DetectExactNative(c, isNativeBinary, search, step) ==
    IF isNativeBinary /\ Includes(c, search) THEN {step} ELSE {}

ExactSteps(c, isNativeBinary) ==
    DetectExact14(c, isNativeBinary, redactedThinkingCallsiteSearchPattern_v21114,
                  redactedThinkingCallsiteReplacement_v21114,
                  "v2.1.14 redacted_thinking call site",
                  "v2.1.14 redacted_thinking call site (regex)")
    \cup DetectExact14(c, isNativeBinary, thinkingCallsiteSearchPattern_v21114,
                  thinkingCallsiteReplacement_v21114,
                  "v2.1.14 thinking call site",
                  "v2.1.14 thinking call site (regex)")
    \cup DetectExactNative(c, isNativeBinary, redactedThinkingCallsiteSearchPattern_v21117_native,
                  "v2.1.17 redacted_thinking call site (native)")
    \cup DetectExactNative(c, isNativeBinary, thinkingCallsiteSearchPattern_v21117_native,
                  "v2.1.17 thinking call site (native)")

\* the generic native regexes are tried when no exact rule of a native binary is found
NativeOrExactSteps(c, isNativeBinary, exact) ==
    IF isNativeBinary /\ exact = {} THEN detectNativeRegexPatches(c) ELSE exact

patch2PlannedSteps(c, isNativeBinary) ==
    NativeOrExactSteps(c, isNativeBinary, ExactSteps(c, isNativeBinary))

ThinkingReplacements ==
    {redactedThinkingCallsiteReplacement_v21114, thinkingCallsiteReplacement_v21114,
     redactedThinkingCallsiteReplacement_v21117_native, thinkingCallsiteReplacement_v21117_native}

\* (isNativeBinary && detectNativeAlreadyPatched(content)) ||
\* (!isNativeBinary && detectJsAlreadyPatched(content))
AlreadyPatchedHeuristic(c, isNativeBinary) ==
    \/ isNativeBinary /\ detectNativeAlreadyPatched(c)
    \/ ~isNativeBinary /\ detectJsAlreadyPatched(c)

\* what the checks of patch-thinking set before anything is applied, heuristic
\* being the answer of the already-patched detector
DetectResultWith(c, isNativeBinary, steps, heuristic) ==
    [patch1Applied |-> Includes(c, bannerSearchPattern_v2062),
     patch1AlreadyApplied |-> /\ ~Includes(c, bannerSearchPattern_v2062)
                              /\ Includes(c, bannerReplacement_v2062),
     patch2Applied |-> steps # {},
     steps |-> steps,
     patch2AlreadyApplied |->
        /\ steps = {}
        /\ \/ \E rep \in ThinkingReplacements : Includes(c, rep)
           \/ heuristic]

DetectResult(c, isNativeBinary, steps) ==
    DetectResultWith(c, isNativeBinary, steps, AlreadyPatchedHeuristic(c, isNativeBinary))

ThinkingDetect(c, isNativeBinary) ==
    DetectResult(c, isNativeBinary, patch2PlannedSteps(c, isNativeBinary))

ExactStep(isNativeBinary, c, search, replacement) ==
    IF Includes(c, search) THEN replaceOnceExact(isNativeBinary, c, search, replacement)
    ELSE Ok(c, 0)

RECURSIVE WhileExactNative(_, _, _, _)
WhileExactNative(isNativeBinary, c, search, replacement) ==
    IF isNativeBinary /\ Includes(c, search)
    THEN Bind(replaceOnceExact(isNativeBinary, c, search, replacement),
              LAMBDA d : WhileExactNative(isNativeBinary, d, search, replacement))
    ELSE Ok(c, 0)

\* if (result.steps.length > 0) { content = result.source; ... }
RegexFallbackResult(c, result) ==
    IF result.threw THEN Thrown
    ELSE IF result.steps # {} THEN Ok(result.out, 1) ELSE Ok(c, 0)

RegexFallback14(isNativeBinary, c) ==
    IF ~isNativeBinary /\ Includes(c, VERSION_2_1_14)
    THEN RegexFallbackResult(c, applyRegexPatches_v21114(isNativeBinary, c))
    ELSE Ok(c, 0)

HasGateSubstring(c) ==
    \E p \in 1..(Len(c) - 1) :
        /\ c[p] \in {"CT", "CR"}
        /\ \/ c[p + 1] \in GateLike
           \/ p + 2 <= Len(c) /\ c[p + 1] = "{" /\ c[p + 2] \in GateLike

NativeFallbackResult(c, result) ==
    IF result.threw THEN Thrown
    ELSE IF result.steps > 0 THEN Ok(result.out, 1) ELSE Ok(c, 0)

NativeRegexFallback(isNativeBinary, c) ==
    IF isNativeBinary /\ HasGateSubstring(c)
    THEN NativeFallbackResult(c, applyNativeRegexPatches(c))
    ELSE Ok(c, 0)

\* patch 1: the banner
ApplyPatch1(isNativeBinary, c, d) ==
    IF d.patch1Applied
    THEN replaceOnceExact(isNativeBinary, c, bannerSearchPattern_v2062, bannerReplacement_v2062)
    ELSE Ok(c, 0)

\* patch 2: the exact rules in the order of the source, then the fallbacks
ApplyPatch2(isNativeBinary, d, a1) ==
    IF ~d.patch2Applied THEN a1
    ELSE
    Bind(Bind(Bind(Bind(Bind(Bind(a1,
        LAMBDA t : ExactStep(isNativeBinary, t,
                        redactedThinkingCallsiteSearchPattern_v21114,
                        redactedThinkingCallsiteReplacement_v21114)),
        LAMBDA t : ExactStep(isNativeBinary, t,
                        thinkingCallsiteSearchPattern_v21114,
                        thinkingCallsiteReplacement_v21114)),
        LAMBDA t : RegexFallback14(isNativeBinary, t)),
        LAMBDA t : WhileExactNative(isNativeBinary, t,
                        redactedThinkingCallsiteSearchPattern_v21117_native,
                        redactedThinkingCallsiteReplacement_v21117_native)),
        LAMBDA t : WhileExactNative(isNativeBinary, t,
                        thinkingCallsiteSearchPattern_v21117_native,
                        thinkingCallsiteReplacement_v21117_native)),
        LAMBDA t : NativeRegexFallback(isNativeBinary, t))

\* the statements between "Applying patches..." and "Writing patched file..."
ThinkingApply(isNativeBinary, c, d) ==
    ApplyPatch2(isNativeBinary, d, ApplyPatch1(isNativeBinary, c, d))

(***************************************************************************)
(* The file system and the bookkeeping of a run.                           *)
(***************************************************************************)
NoFile == <<>>

\* fs.existsSync(backupPath) ? leave it : fs.copyFileSync(targetPath, backupPath)
ensureBackup_Overwrite(backupFile, targetFile) == <<targetFile>>

ensureBackup_Skip(backupFile, targetFile) == backupFile

ensureBackup(backupFile, targetFile) ==
    IF backupFile # NoFile THEN backupFile ELSE <<targetFile>>

\* fs.copyFileSync(backupPath, targetPath): what the target holds afterwards
RestoredContent_Empty(backupFile) == <<>>

RestoredContent(backupFile) == backupFile[1]

\* the guard in front of writeFileSync: a native patch must not change the size
SizeChanged_Never(isNativeBinary, patched, originalContentLength) == FALSE

SizeChanged(isNativeBinary, patched, originalContentLength) ==
    isNativeBinary /\ ByteLen(patched) # originalContentLength

isNativeBinary == kind = "native-binary"

NoConfig == [present |-> FALSE, Plan |-> <<>>, Explore |-> <<>>, gp |-> <<>>]
\* the configurations the model lets getModelConfiguration return
Configs ==
    { NoConfig,
      [present |-> TRUE, Plan |-> <<"opus">>, Explore |-> <<>>, gp |-> <<>>],
      [present |-> TRUE, Plan |-> <<"sonnet">>, Explore |-> <<>>, gp |-> <<>>],
      [present |-> TRUE, Plan |-> <<"$&">>, Explore |-> <<>>, gp |-> <<>>],
      [present |-> TRUE, Plan |-> <<>>, Explore |-> <<"sonnet">>, gp |-> <<>>],
      [present |-> TRUE, Plan |-> <<"opus">>, Explore |-> <<"opus">>, gp |-> <<"opus">>] }

NoPlan == [patch1Applied |-> FALSE, patch1AlreadyApplied |-> FALSE, patch2Applied |-> FALSE,
           steps |-> {}, patch2AlreadyApplied |-> FALSE]

BackupOf(t) == IF t = "subagent" THEN sbackup ELSE backup

\* the run that has just ended was a patch run of tool t under configuration
\* cfg that wrote the target and exited with 0
PatchedJustBefore(t, cfg) ==
    /\ pc = "done"
    /\ tool = t /\ modelConfig = cfg
    /\ ~isRestore /\ ~isDryRun
    /\ wrote /\ exitCode = <<0>>

BeginRun(t, dry, res, cfg) ==
    /\ pc \in {"idle", "done"}
    /\ runs < MaxRuns
    /\ runs' = runs + 1
    /\ tool' = t
    /\ isDryRun' = dry
    /\ isRestore' = res
    /\ modelConfig' = cfg
    /\ hist' = [before |-> target, backup |-> backup, sbackup |-> sbackup,
                hadBackup |-> BackupOf(t) # NoFile,
                follows |-> PatchedJustBefore(t, cfg) \/ (res /\ PatchedJustBefore(t, modelConfig)),
                patchBefore |-> hist.before, patchHadBackup |-> hist.hadBackup,
                patchPlan |-> plan]

\* process.exit(code), or the uncaught Error that ends node with code 1
Exit(code, didThrow, didWrite) ==
    /\ pc' = "done"
    /\ exitCode' = <<code>>
    /\ threw' = didThrow
    /\ wrote' = didWrite

Continue(step) ==
    /\ pc' = step
    /\ exitCode' = <<>>
    /\ threw' = FALSE
    /\ wrote' = FALSE

(***************************************************************************)
(* patch-thinking.js                                                       *)
(***************************************************************************)
ThinkingRestore ==
    /\ \E dry \in BOOLEAN : BeginRun("thinking", dry, TRUE, NoConfig)
    /\ content' = <<>>
    /\ plan' = NoPlan
    /\ IF backup = NoFile
       THEN Exit(1, FALSE, FALSE) /\ UNCHANGED target
       ELSE target' = RestoredContent(backup) /\ Exit(0, FALSE, FALSE)
    /\ UNCHANGED <<kind, backup, sbackup, scanVars, rule>>

\* with nothing to apply: exit 0 if something is already applied, else exit 1
ThinkingNothingToDo_AlwaysFail(d) == 1

ThinkingNothingToDo(d) ==
    IF d.patch1AlreadyApplied \/ d.patch2AlreadyApplied THEN 0 ELSE 1

\* if (!patch1Applied && !patch2Applied) { ... process.exit } : is there something to apply
ThinkingProceeds_IfUndetected(d) ==
    d.patch1Applied \/ d.patch2Applied \/ ~d.patch2AlreadyApplied

ThinkingProceeds(d) == d.patch1Applied \/ d.patch2Applied

\* a patch run of patch-thinking up to its first exit or the backup
ThinkingBegin ==
    /\ \E dry \in BOOLEAN : BeginRun("thinking", dry, FALSE, NoConfig)
    /\ content' = target
    /\ plan' = ThinkingDetect(target, isNativeBinary)
    /\ IF isDryRun' THEN Exit(0, FALSE, FALSE)
       ELSE IF ~ThinkingProceeds(plan')
            THEN Exit(ThinkingNothingToDo(plan'), FALSE, FALSE)
       ELSE Continue("backup")

ThinkingStart ==
    /\ ThinkingBegin
    /\ UNCHANGED <<fileVars, scanVars, rule>>

ThinkingBackup ==
    /\ pc = "backup" /\ tool = "thinking"
    /\ backup' = ensureBackup(backup, target)
    /\ pc' = "apply"
    /\ UNCHANGED <<target, kind, sbackup, tool, isDryRun, isRestore, modelConfig, content, plan,
                   exitCode, threw, wrote, hist, runs, scanVars, rule>>

\* what follows the apply statements of patch-thinking and patch-subagent-models:
\* an uncaught Error, the size guard of a native binary, or writeFileSync
WriteOrFail(r) ==
    IF r.threw
    THEN Exit(1, TRUE, FALSE) /\ UNCHANGED <<target, content>>
    ELSE /\ content' = r.out
         /\ IF SizeChanged(isNativeBinary, r.out, ByteLen(content))
            THEN Exit(1, FALSE, FALSE) /\ UNCHANGED target
            ELSE target' = r.out /\ Exit(0, FALSE, TRUE)

ThinkingWrite ==
    /\ pc = "apply" /\ tool = "thinking"
    /\ WriteOrFail(ThinkingApply(isNativeBinary, content, plan))
    /\ UNCHANGED <<kind, backup, sbackup, tool, isDryRun, isRestore, modelConfig, plan,
                   hist, runs, scanVars, rule>>

(***************************************************************************)
(* patch-subagent-models.js                                                *)
(***************************************************************************)
PlanSearchPattern == <<"PL", "sonnet", DQ, "}">>
PlanReplacement(cfg) == <<"PL", cfg.Plan[1], DQ, "}">>
ExploreSearchPattern == <<"EX", "haiku", DQ, "EE">>
ExploreReplacement(cfg) == <<"EX", cfg.Explore[1], DQ, "EE">>

\* tokens with a closing brace in them: [^}]* stops in front of them
HasCloseBrace(t) ==
    t \in {"}", "END", "OE", "EE", "BN", "BB", "R14", "R17", "Rab"}

\* /Y01=\{agentType:"general-purpose"[^}]*\}/ : <<first, last>> of the first
\* match, <<>> if there is none
GeneralPurposeMatch(s) ==
    LET ends(p) == {e \in (p + 1)..Len(s) : HasCloseBrace(s[e])}
        first(p) == CHOOSE e \in ends(p) : \A f \in ends(p) : e <= f
        hits == {p \in 1..Len(s) : s[p] = "GP" /\ ends(p) # {} /\ s[first(p)] = "}"}
    IN  IF hits = {} THEN <<>>
        ELSE LET p == CHOOSE q \in hits : \A h \in hits : q <= h IN <<p, first(p)>>

\* match.replace(/,model:"[^"]+"/g, `,model:"${model}"`)
RECURSIVE ReplaceModelProps(_, _)
ReplaceModelProps(m, model) ==
    IF m = <<>> THEN <<>>
    ELSE IF Len(m) >= 3 /\ m[1] = "GM" /\ m[2] # DQ /\ m[3] = DQ
         THEN ExpandDollar(<<"GM", model, DQ>>, SubSeq(m, 1, 3))
              \o ReplaceModelProps(SubSeq(m, 4, Len(m)), model)
    ELSE <<Head(m)>> \o ReplaceModelProps(Tail(m), model)

replacePattern(match, model) ==
    IF Includes(match, <<"GM">>) THEN ReplaceModelProps(match, model)
    ELSE SubSeq(match, 1, Len(match) - 1) \o ExpandDollar(<<"GM", model, DQ, "}">>, <<"}">>)

\* the status the detection loop gives each configured patch
PlanStatus(c, cfg) ==
    IF Includes(c, PlanSearchPattern) THEN "ready"
    ELSE IF Includes(c, PlanReplacement(cfg)) THEN "applied" ELSE "notfound"

ExploreStatus(c, cfg) ==
    IF Includes(c, ExploreSearchPattern) THEN "ready"
    ELSE IF Includes(c, ExploreReplacement(cfg)) THEN "applied" ELSE "notfound"

GeneralPurposeStatus(c, cfg) ==
    LET m == GeneralPurposeMatch(c) IN
    IF m = <<>> THEN "notfound"
    ELSE IF SubSeq(c, m[1], m[2]) # replacePattern(SubSeq(c, m[1], m[2]), cfg.gp[1])
         THEN "ready" ELSE "applied"

patchResults(c, cfg) ==
    [Plan |-> IF cfg.Plan = <<>> THEN "unset" ELSE PlanStatus(c, cfg),
     Explore |-> IF cfg.Explore = <<>> THEN "unset" ELSE ExploreStatus(c, cfg),
     gp |-> IF cfg.gp = <<>> THEN "unset" ELSE GeneralPurposeStatus(c, cfg)]

PatchNames == {"Plan", "Explore", "gp"}

\* one turn of the apply loop on an exact patch
ApplyExactPatch(native, patchedContent, searchPattern, replacement) ==
    IF ~native THEN Ok(StringReplace(patchedContent, searchPattern, replacement), 1)
    ELSE LET padded == padRightSpaces(replacement, ByteLen(searchPattern)) IN
         IF padded.null THEN Thrown
         ELSE Ok(StringReplace(patchedContent, searchPattern, padded.str), 1)

\* one turn of the apply loop on the regex patch
ApplyRegexPatch(native, patchedContent, model) ==
    LET m == GeneralPurposeMatch(patchedContent) IN
    IF m = <<>> THEN Ok(patchedContent, 0)
    ELSE LET match == SubSeq(patchedContent, m[1], m[2])
             replacement == replacePattern(match, model)
             padded == IF native THEN padRightSpaces(replacement, ByteLen(match))
                       ELSE Some(replacement)
         IN  IF padded.null THEN Thrown
             ELSE Ok(Slice(patchedContent, 1, m[1] - 1) \o padded.str
                       \o Slice(patchedContent, m[2] + 1, Len(patchedContent)), 1)

\* for (const patch of toApply) ...
SubagentApply(native, c, cfg, results) ==
    LET a1 == IF results.Plan = "ready"
              THEN ApplyExactPatch(native, c, PlanSearchPattern, PlanReplacement(cfg))
              ELSE Ok(c, 0)
        a2 == IF results.Explore = "ready"
              THEN Bind(a1, LAMBDA t : ApplyExactPatch(native, t, ExploreSearchPattern,
                                                       ExploreReplacement(cfg)))
              ELSE a1
    IN  IF results.gp = "ready"
        THEN Bind(a2, LAMBDA t : ApplyRegexPatch(native, t, cfg.gp[1]))
        ELSE a2

SubagentRestore ==
    /\ \E dry \in BOOLEAN : BeginRun("subagent", dry, TRUE, NoConfig)
    /\ content' = <<>>
    /\ plan' = NoPlan
    /\ IF sbackup = NoFile
       THEN Exit(1, FALSE, FALSE) /\ UNCHANGED target
       ELSE target' = RestoredContent(sbackup) /\ Exit(0, FALSE, FALSE)
    /\ UNCHANGED <<kind, backup, sbackup, scanVars, rule>>

\* a configuration file: not there, there but not JSON, or holding a configuration
AbsentFile == [state |-> "absent", config |-> NoConfig]
MalformedFile == [state |-> "malformed", config |-> NoConfig]
ParsedFile(cfg) == [state |-> "parsed", config |-> cfg]

ConfigFileStates == {AbsentFile, MalformedFile} \cup {ParsedFile(c) : c \in Configs \ {NoConfig}}

\* ~/.claude/subagent-models.json and ~/.config/claude/subagent-models.json
ConfigFilePairs == ConfigFileStates \X ConfigFileStates

\* the loop of getModelConfiguration from configPaths[i] on, giving up at a
\* file that does not parse
RECURSIVE ConfigFromStrict(_, _)
ConfigFromStrict(files, i) ==
    IF i > Len(files) THEN NoConfig
    ELSE IF files[i].state = "absent" THEN ConfigFromStrict(files, i + 1)
    ELSE IF files[i].state = "parsed" THEN files[i].config
    ELSE NoConfig

\* the loop of getModelConfiguration from configPaths[i] on: the first file
\* that exists and parses is returned, null (NoConfig) if there is none
RECURSIVE ConfigFrom(_, _)
ConfigFrom(files, i) ==
    IF i > Len(files) THEN NoConfig
    ELSE IF files[i].state = "absent" THEN ConfigFrom(files, i + 1)
    ELSE IF files[i].state = "parsed" THEN files[i].config
    ELSE ConfigFrom(files, i + 1)

\* the files the catch of that loop writes a warning about
RECURSIVE ConfigWarnings(_, _)
ConfigWarnings(files, i) ==
    IF i > Len(files) THEN {}
    ELSE IF files[i].state = "absent" THEN ConfigWarnings(files, i + 1)
    ELSE IF files[i].state = "parsed" THEN {}
    ELSE {i} \cup ConfigWarnings(files, i + 1)

getModelConfiguration_StopAtMalformed(files) == ConfigFromStrict(files, 1)

getModelConfiguration(files) == ConfigFrom(files, 1)

SubagentStart ==
    /\ \E dry \in BOOLEAN, files \in ConfigFilePairs :
          BeginRun("subagent", dry, FALSE, getModelConfiguration(files))
    /\ IF ~modelConfig'.present
       THEN /\ content' = <<>>
            /\ plan' = NoPlan
            /\ Exit(0, FALSE, FALSE)
       ELSE /\ content' = target
            /\ plan' = patchResults(target, modelConfig')
            /\ IF isDryRun' THEN Exit(0, FALSE, FALSE)
               ELSE IF \A n \in PatchNames : plan'[n] # "ready" THEN Exit(0, FALSE, FALSE)
               ELSE Continue("backup")
    /\ UNCHANGED <<fileVars, scanVars, rule>>

SubagentBackup ==
    /\ pc = "backup" /\ tool = "subagent"
    /\ sbackup' = ensureBackup(sbackup, target)
    /\ pc' = "apply"
    /\ UNCHANGED <<target, kind, backup, tool, isDryRun, isRestore, modelConfig, content, plan,
                   exitCode, threw, wrote, hist, runs, scanVars, rule>>

SubagentWrite ==
    /\ pc = "apply" /\ tool = "subagent"
    /\ WriteOrFail(SubagentApply(isNativeBinary, content, modelConfig, plan))
    /\ UNCHANGED <<kind, backup, sbackup, tool, isDryRun, isRestore, modelConfig, plan,
                   hist, runs, scanVars, rule>>

(***************************************************************************)
(* patch-npm-deprecation-warning.js                                        *)
(***************************************************************************)
keyNeedle == <<"KEY">>

\* /[A-Za-z0-9_$\.]/ on the one-character tokens of the model
isIdentChar(ch) == ch \in (Idents \cup {"w", "x", ".", "0", "void"})

isSpace(ch) == ch = " "

\* the number of characters in front of position p
CharOffset(str, p) == ByteLen(Slice(str, 1, p - 1))

\* the first position at or behind character offset from
WindowStartFrom(str, idxKey, from) ==
    IF from = 0 THEN 1 ELSE FirstOf({p \in 1..idxKey : CharOffset(str, p) >= from})

\* windowStart = Math.max(0, idxKey - windowSize)
WindowStart(str, idxKey) ==
    WindowStartFrom(str, idxKey, Max(0, CharOffset(str, idxKey) - WindowSize))

\* while (i >= 0 && Test(str[i])) i--;   (0 here is JavaScript's -1)
SkipBack(str, i, Test(_)) == LastOf({j \in 0..i : j = 0 \/ ~Test(str[j])})

\* if (identStart >= identEnd) return { did: false }
CallSpanResult(identStart, identEnd, closeParenIndex) ==
    IF identStart >= identEnd THEN <<>> ELSE <<identStart, closeParenIndex>>

\* the identifier in front of the '(' : identEnd, then identStart
CallSpanOfCall(str, identEnd, closeParenIndex) ==
    IF closeParenIndex = NotFound THEN <<>>
    ELSE CallSpanResult(SkipBack(str, identEnd - 1, isIdentChar) + 1, identEnd, closeParenIndex)

\* relObj = searchSpace.lastIndexOf('({'); openParenIndex = windowStart + relObj
CallSpanFromObj(str, windowStart, relObj) ==
    IF relObj = NotFound THEN <<>>
    ELSE CallSpanOfCall(str, SkipBack(str, windowStart + relObj - 2, isSpace) + 1,
                        FindMatchingParen(str, windowStart + relObj - 1))

\* searchSpace = str.slice(windowStart, idxKey)
CallSpanInWindow(str, windowStart, idxKey) ==
    CallSpanFromObj(str, windowStart,
                    LastIndexOf(Slice(str, windowStart, idxKey), <<"(", "{">>))

CallSpanFromKey(str, idxKey) ==
    IF idxKey = NotFound THEN <<>>
    ELSE CallSpanInWindow(str, WindowStart(str, idxKey), idxKey)

\* openParenIndex = windowStart + relObj, the '(' of the last '({' of the window
OpenParenFromObj(windowStart, relObj) ==
    IF relObj = NotFound THEN NotFound ELSE windowStart + relObj - 1

OpenParenInWindow(str, windowStart, idxKey) ==
    OpenParenFromObj(windowStart, LastIndexOf(Slice(str, windowStart, idxKey), <<"(", "{">>))

openParenIndex(str) ==
    IF IndexOf(str, keyNeedle) = NotFound THEN NotFound
    ELSE OpenParenInWindow(str, WindowStart(str, IndexOf(str, keyNeedle)), IndexOf(str, keyNeedle))

\* closeParenIndex = findMatchingParen(str, openParenIndex)
CloseParenFrom(str, open) ==
    IF open = NotFound THEN NotFound ELSE FindMatchingParen(str, open)

closeParenIndex(str) == CloseParenFrom(str, openParenIndex(str))

\* what both patchOnce compute before they replace: <<identStart, closeParenIndex>>,
\* or <<>> for { did: false }
CallSpan(str) == CallSpanFromKey(str, IndexOf(str, keyNeedle))

NotPatched(str) == [did |-> FALSE, next |-> str]

\* a variant with removalEnd = closeParenIndex, which leaves the ')' behind
RemoveCall_UpToParen(str, span, j, hasLeadingComma) ==
    [did |-> TRUE,
     next |-> Slice(str, 1, (IF hasLeadingComma THEN j ELSE span[1]) - 1)
                \o (IF hasLeadingComma THEN <<>> ELSE <<"void", " ", "0">>)
                \o Slice(str, span[2], Len(str))]

\* removalStart = hasLeadingComma ? j : identStart; replacement = hasLeadingComma ? '' : 'void 0'
RemoveCall(str, span, j, hasLeadingComma) ==
    [did |-> TRUE,
     next |-> Slice(str, 1, (IF hasLeadingComma THEN j ELSE span[1]) - 1)
                \o (IF hasLeadingComma THEN <<>> ELSE <<"void", " ", "0">>)
                \o Slice(str, span[2] + 1, Len(str))]

\* a variant that never takes the comma along
RemoveCallBehind_KeepComma(str, span, j) == RemoveCall(str, span, j, FALSE)

\* let j = identStart - 1; while (j >= 0 && /\s/.test(str[j])) j--;
RemoveCallBehind(str, span, j) == RemoveCall(str, span, j, j >= 1 /\ str[j] = ",")

PatchSpanText(str, span) ==
    IF span = <<>> THEN NotPatched(str)
    ELSE RemoveCallBehind(str, span, SkipBack(str, span[1] - 1, isSpace))

\* patchOnce of applyPatchToText
patchOnceText(str) == PatchSpanText(str, CallSpan(str))

\* replacement = padRightSpaces('0', removalLen)
OverwriteCall(str, span, removalLen, replacement) ==
    IF removalLen <= 0 \/ replacement.null THEN NotPatched(str)
    ELSE [did |-> TRUE,
          next |-> Slice(str, 1, span[1] - 1) \o replacement.str
                     \o Slice(str, span[2] + 1, Len(str))]

\* removalLen = removalEnd - removalStart
OverwriteCallOfLen(str, span, removalLen) ==
    OverwriteCall(str, span, removalLen, padRightSpaces(<<"0">>, removalLen))

PatchSpanNative(str, span) ==
    IF span = <<>> THEN NotPatched(str)
    ELSE OverwriteCallOfLen(str, span, ByteLen(SubSeq(str, span[1], span[2])))

\* patchOnce of applyPatchToNativeBinary
patchOnceNative(str) == PatchSpanNative(str, CallSpan(str))

patchOnce(native, text) == IF native THEN patchOnceNative(text) ELSE patchOnceText(text)

\* for (let n = 0; n < PatchLoopBound; n++) { r = patchOnce(next); if (!r.did) break; ... }
RECURSIVE PatchLoop(_, _, _, _)
\* if (!r.did) break; next = r.next; patched = true
PatchLoopStep(native, text, did, n, r) ==
    IF ~r.did THEN [patched |-> did, next |-> text]
    ELSE PatchLoop(native, r.next, TRUE, n + 1)

PatchLoop(native, text, did, n) ==
    IF n >= PatchLoopBound THEN [patched |-> did, next |-> text]
    ELSE PatchLoopStep(native, text, did, n, patchOnce(native, text))

TextResult(r) == [threw |-> FALSE, patched |-> r.patched, next |-> r.next]

applyPatchToText(text) == TextResult(PatchLoop(FALSE, text, FALSE, 0))

\* if (next.length !== buf.length) throw new Error(...)
NativeResult(buf, r) ==
    IF ByteLen(r.next) # ByteLen(buf) THEN [threw |-> TRUE, patched |-> FALSE, next |-> buf]
    ELSE [threw |-> FALSE, patched |-> r.patched, next |-> r.next]

applyPatchToNativeBinary(buf) == NativeResult(buf, PatchLoop(TRUE, buf, FALSE, 0))

(***************************************************************************)
(* Which calls the two loops select, turn by turn.  Next to the string a   *)
(* loop works on goes, for each of its characters, the position that       *)
(* character has in the input (NotFound for a character patchOnce put in). *)
(***************************************************************************)
Fresh(n) == [k \in 1..n |-> NotFound]

\* text mode: what is in front of removalStart, the replacement, the rest
OriginText(str, origin, next, removalStart, replacementLen) ==
    Slice(origin, 1, removalStart - 1) \o Fresh(replacementLen)
      \o Slice(origin, Len(str) - (Len(next) - (removalStart - 1) - replacementLen) + 1, Len(str))

OriginTextBehind(str, origin, span, next, j) ==
    IF j >= 1 /\ str[j] = "," THEN OriginText(str, origin, next, j, 0)
    ELSE OriginText(str, origin, next, span[1], 3)

\* native mode: the '0' stands where the callee began, spaces follow it
OriginNative(str, origin, span, next) ==
    Slice(origin, 1, span[1] - 1) \o <<origin[span[1]]>>
      \o Fresh(Len(next) - Len(str) + span[2] - span[1])
      \o Slice(origin, span[2] + 1, Len(str))

OriginNext(native, str, origin, span, next) ==
    IF native THEN OriginNative(str, origin, span, next)
    ELSE OriginTextBehind(str, origin, span, next, SkipBack(str, span[1] - 1, isSpace))

\* <<identStart, closeParenIndex>> of every turn of the loop that reports
\* did: true, as positions of the input
RECURSIVE Selections(_, _, _, _)
SelectionsBehind(native, str, origin, n, span, r) ==
    IF ~r.did THEN <<>>
    ELSE << <<origin[span[1]], origin[span[2]]>> >>
           \o Selections(native, r.next, OriginNext(native, str, origin, span, r.next), n + 1)

Selections(native, str, origin, n) ==
    IF n >= PatchLoopBound THEN <<>>
    ELSE SelectionsBehind(native, str, origin, n, CallSpan(str), patchOnce(native, str))

SelectionsOf(native, str) == Selections(native, str, [k \in 1..Len(str) |-> k], 0)

\* if (!isDryRun) fs.copyFileSync(backupPath, targetPath): what the target holds afterwards
restoreFromBackup_IgnoreDryRun(dry, backupFile, targetFile) == RestoredContent(backupFile)

restoreFromBackup(dry, backupFile, targetFile) ==
    IF dry THEN targetFile ELSE RestoredContent(backupFile)

NpmRestore ==
    /\ \E dry \in BOOLEAN : BeginRun("npm", dry, TRUE, NoConfig)
    /\ content' = <<>>
    /\ plan' = NoPlan
    /\ IF backup = NoFile
       THEN Exit(1, FALSE, FALSE) /\ UNCHANGED target
       ELSE /\ target' = restoreFromBackup(isDryRun', backup, target)
            /\ Exit(0, FALSE, FALSE)
    /\ UNCHANGED <<kind, backup, sbackup, scanVars, rule>>

\* applyPatchToNativeBinary(buf) for a native binary, else applyPatchToText(text)
applyPatch(native, text) ==
    IF native THEN applyPatchToNativeBinary(text) ELSE applyPatchToText(text)

\* after the patch: a thrown Error, 'Patch pattern not found', a dry run, or on to the backup
NpmPatched(r) ==
    /\ content' = r.next
    /\ IF r.threw THEN Exit(1, TRUE, FALSE)
       ELSE IF ~r.patched THEN Exit(1, FALSE, FALSE)
       ELSE IF isDryRun' THEN Exit(0, FALSE, FALSE)
       ELSE Continue("backup")

NpmStart ==
    /\ \E dry \in BOOLEAN : BeginRun("npm", dry, FALSE, NoConfig)
    /\ plan' = NoPlan
    /\ IF ~Includes(target, keyNeedle)
       THEN content' = target /\ Exit(0, FALSE, FALSE)
       ELSE NpmPatched(applyPatch(isNativeBinary, target))
    /\ UNCHANGED <<fileVars, scanVars, rule>>

NpmBackup ==
    /\ pc = "backup" /\ tool = "npm"
    /\ backup' = ensureBackup(backup, target)
    /\ pc' = "apply"
    /\ UNCHANGED <<target, kind, sbackup, tool, isDryRun, isRestore, modelConfig, content, plan,
                   exitCode, threw, wrote, hist, runs, scanVars, rule>>

NpmWrite ==
    /\ pc = "apply" /\ tool = "npm"
    /\ target' = content
    /\ Exit(0, FALSE, TRUE)
    /\ UNCHANGED <<kind, backup, sbackup, tool, isDryRun, isRestore, modelConfig, content, plan,
                   hist, runs, scanVars, rule>>

(***************************************************************************)
(* Spec: runs of the three tools, one after the other, on one install.     *)
(* The target is put together from one piece of bundle per tool.           *)
(***************************************************************************)
ThinkingPieces ==
    { <<>>,
      VERSION_2_1_14 \o redactedThinkingCallsiteSearchPattern_v21114 \o <<";">>
          \o thinkingCallsiteSearchPattern_v21114,
      VERSION_2_1_14 \o <<"CR", "Gab", "Rab", ";",
          "CT", "{", "Gab", "RET", "Pab", "a", "VK", "b", "HK", "Hab", "END">>,
      redactedThinkingCallsiteSearchPattern_v21117_native \o <<";">>
          \o thinkingCallsiteSearchPattern_v21117_native,
      <<"CR", "{", "G3", "Rab", "}">>,
      <<"CR", "GX", "Rab">>,
      bannerSearchPattern_v2062 }

SubagentPieces ==
    { <<>>,
      <<"EX", "haiku", DQ, "EE", "PL", "sonnet", DQ, "}", ";", "GP", "GW", "}">>,
      <<"GP", "GW", "GM", "haiku", DQ, "}">> }

NpmPieces ==
    { <<>>,
      <<"w", "(", "{", "KEY", "}", ")", ";">>,
      <<"x", ",", "w", "(", "{", "KEY", ",", DQ, ")", DQ, "}", ")">>,
      <<"{", "KEY", "}">> }

NoRun ==
    /\ pc = "idle"
    /\ tool = "none"
    /\ isDryRun = FALSE
    /\ isRestore = FALSE
    /\ modelConfig = NoConfig
    /\ content = <<>>
    /\ plan = NoPlan
    /\ exitCode = <<>>
    /\ threw = FALSE
    /\ wrote = FALSE
    /\ hist = [before |-> <<>>, backup |-> NoFile, sbackup |-> NoFile,
               hadBackup |-> FALSE, follows |-> FALSE,
               patchBefore |-> <<>>, patchHadBackup |-> FALSE, patchPlan |-> NoPlan]
    /\ runs = 0

NoTwin == [pc |-> "idle", target |-> <<>>, backup |-> NoFile, content |-> <<>>, plan |-> NoPlan,
           exitCode |-> <<>>, wrote |-> FALSE, threw |-> FALSE]

NoCall == [text |-> <<>>, start |-> 0, end |-> 0]

NoProbe == [exists |-> FALSE, endsWithJs |-> FALSE, readable |-> FALSE, bytes |-> <<>>]

NoScan ==
    /\ scanStr = <<>>
    /\ scanOpen = 0
    /\ scanResult = <<>>
    /\ probe = NoProbe
    /\ probeKind = <<>>
    /\ configFiles = <<>>
    /\ configWarned = {}
    /\ call = NoCall
    /\ callResult = <<>>
    /\ twin = NoTwin
    /\ npmIn = <<>>
    /\ npmOut = <<>>

NoRule == [fn |-> "none", buffer |-> FALSE, search |-> <<>>, replacement |-> <<>>,
           rx |-> [pat |-> <<>>, global |-> FALSE], tpl |-> <<>>]

\* the installs the model starts from: every piece of one tool next to the
\* usual pieces of the two others, and an install with none of them
UsualThinking == VERSION_2_1_14 \o redactedThinkingCallsiteSearchPattern_v21114 \o <<";">>
                     \o thinkingCallsiteSearchPattern_v21114
UsualSubagent == <<"EX", "haiku", DQ, "EE", "PL", "sonnet", DQ, "}", ";", "GP", "GW", "}">>
UsualNpm == <<"w", "(", "{", "KEY", "}", ")", ";">>

Installs ==
    {<<t, UsualSubagent, UsualNpm>> : t \in ThinkingPieces}
    \cup {<<UsualThinking, s, UsualNpm>> : s \in SubagentPieces}
    \cup {<<UsualThinking, UsualSubagent, n>> : n \in NpmPieces}
    \cup {<< <<>>, <<>>, <<>> >>, << <<"CR", "GX", "Rab">>, <<>>, <<"{", "KEY", "}">> >>}

Init ==
    /\ kind \in {"js", "native-binary"}
    /\ \E i \in Installs :
          /\ i[1] = bannerSearchPattern_v2062 => kind = "js"
          /\ target = i[1] \o <<";">> \o i[2] \o <<";">> \o i[3]
    /\ backup = NoFile
    /\ sbackup = NoFile
    /\ NoRun
    /\ NoScan
    /\ rule = NoRule

Next ==
    \/ ThinkingRestore
    \/ ThinkingStart
    \/ ThinkingBackup
    \/ ThinkingWrite
    \/ SubagentRestore
    \/ SubagentStart
    \/ SubagentBackup
    \/ SubagentWrite
    \/ NpmRestore
    \/ NpmStart
    \/ NpmBackup
    \/ NpmWrite

Spec == Init /\ [][Next]_vars

(***************************************************************************)
(* SpecReplace: the replacement helpers of patch-thinking and the two      *)
(* kinds of turn of the apply loop of patch-subagent-models, each called   *)
(* once with a rule out of a small set in place of the rule table, the     *)
(* way the tools call them: between the backup and the write, with no      *)
(* handler for what they throw.                                            *)
(***************************************************************************)
ReplTokens == {"a", "b"}
ReplSources == StringsUpTo(ReplTokens, MaxReplLen) \ {<<>>}
ReplSearches == {<<"a">>, <<"a", "b">>}
ReplReplacements == {<<>>, <<"b">>, <<"b", "b">>, <<"a", "b", "b">>}
ReplRegexes == {[pat |-> p, global |-> g] : p \in {<<{"a"}>>, <<{"a"}, ReplTokens>>}, g \in BOOLEAN}
ReplTemplates == {<<>>, <<Grp(1)>>, <<Grp(1), Lit("b")>>, <<Grp(1), Grp(1), Lit("b")>>}

ExactHelpers == {"replaceOnceExact", "ApplyExactPatch"}
RegexHelpers == {"replaceRegexPreserveLength", "replaceRegexPreserveLengthNativeString"}

ReplRules ==
    {[fn |-> f, buffer |-> FALSE, search |-> s, replacement |-> r,
      rx |-> NoRule.rx, tpl |-> <<>>] :
        f \in ExactHelpers, s \in ReplSearches, r \in ReplReplacements}
    \cup
    {[fn |-> f, buffer |-> b, search |-> <<>>, replacement |-> <<>>, rx |-> x, tpl |-> t] :
        f \in RegexHelpers, b \in BOOLEAN, x \in ReplRegexes, t \in ReplTemplates}

\* the two rules that take the gate out of the redacted_thinking call site,
\* each with the helper the tool calls it with, and contents that hold the
\* call site
GateRules ==
    {[fn |-> "replaceRegexPreserveLength", buffer |-> FALSE, search |-> <<>>,
      replacement |-> <<>>, rx |-> redactedThinkingCallsiteRegex_v21114,
      tpl |-> redactedThinkingCallsiteReplacer],
     [fn |-> "replaceRegexPreserveLengthNativeString", buffer |-> FALSE, search |-> <<>>,
      replacement |-> <<>>, rx |-> nativeRedactedThinkingCallsiteRegex_noBraces,
      tpl |-> redactedThinkingCallsiteReplacer]}

GateSources ==
    {pre \o <<"CR", g, r>> \o post :
        pre \in {<<>>, <<"a", ";">>}, g \in GateLike, r \in RedactedReturn,
        post \in {<<>>, <<"b">>}}

CallHelper(native, source, r) ==
    CASE r.fn = "replaceOnceExact" ->
            replaceOnceExact(native, source, r.search, r.replacement)
      [] r.fn = "ApplyExactPatch" ->
            ApplyExactPatch(native, source, r.search, r.replacement)
      [] r.fn = "replaceRegexPreserveLength" ->
            replaceRegexPreserveLength(native, r.buffer, source, r.rx, r.tpl)
      [] r.fn = "replaceRegexPreserveLengthNativeString" ->
            replaceRegexPreserveLengthNativeString(source, r.rx, r.tpl)

ReplInit ==
    /\ kind \in {"js", "native-binary"}
    /\ \/ target \in ReplSources /\ rule \in ReplRules
       \/ target \in GateSources /\ rule \in GateRules
    /\ rule.fn = "replaceRegexPreserveLengthNativeString" => kind = "native-binary"
    /\ backup = <<target>>
    /\ sbackup = NoFile
    /\ pc = "apply"
    /\ tool = "thinking"
    /\ isDryRun = FALSE
    /\ isRestore = FALSE
    /\ modelConfig = NoConfig
    /\ content = target
    /\ plan = NoPlan
    /\ exitCode = <<>>
    /\ threw = FALSE
    /\ wrote = FALSE
    /\ hist = [before |-> target, backup |-> NoFile, sbackup |-> NoFile,
               hadBackup |-> FALSE, follows |-> FALSE,
               patchBefore |-> <<>>, patchHadBackup |-> FALSE, patchPlan |-> NoPlan]
    /\ runs = 1
    /\ NoScan

ReplApply ==
    /\ pc = "apply" /\ rule # NoRule
    /\ LET r == CallHelper(isNativeBinary, content, rule) IN
       IF r.threw
       THEN Exit(1, TRUE, FALSE) /\ UNCHANGED <<target, content>>
       ELSE /\ content' = r.out
            /\ IF SizeChanged(isNativeBinary, r.out, ByteLen(content))
               THEN Exit(1, FALSE, FALSE) /\ UNCHANGED target
               ELSE target' = r.out /\ Exit(0, FALSE, TRUE)
    /\ UNCHANGED <<kind, backup, sbackup, tool, isDryRun, isRestore, modelConfig, plan,
                   hist, runs, scanVars, rule>>

ReplNext == ReplApply

SpecReplace == ReplInit /\ [][ReplNext]_vars

(***************************************************************************)
(* SpecScan: findMatchingParen applied to every string over ScanAlphabet   *)
(* of at most MaxScanLen characters behind a prefix.                       *)
(***************************************************************************)
ScanAlphabet == {"(", ")", SQ, DQ, BT, BS}
ScanPrefixes == {<<>>, <<"(">>}

ScanInit ==
    /\ \E pre \in ScanPrefixes, body \in StringsUpTo(ScanAlphabet, MaxScanLen - 1) :
          /\ scanStr = pre \o <<"(">> \o body
          /\ scanOpen = Len(pre) + 1
    /\ scanResult = <<>>
    /\ probe = NoProbe
    /\ probeKind = <<>>
    /\ configFiles = <<>>
    /\ configWarned = {}
    /\ call = NoCall
    /\ callResult = <<>>
    /\ twin = NoTwin
    /\ npmIn = <<>>
    /\ npmOut = <<>>
    /\ target = <<>>
    /\ kind = "js"
    /\ backup = NoFile
    /\ sbackup = NoFile
    /\ NoRun
    /\ rule = NoRule

ScanCall ==
    /\ scanResult = <<>>
    /\ scanResult' = <<FindMatchingParen(scanStr, scanOpen)>>
    /\ UNCHANGED <<scanStr, scanOpen, probe, probeKind, configFiles, configWarned, call, callResult, twin, npmIn, npmOut, fileVars, runVars, rule>>

ScanNext == ScanCall

SpecScan == ScanInit /\ [][ScanNext]_vars

(***************************************************************************)
(* What "the parenthesis that closes that one" means, stated without the   *)
(* scanner: OutsideLiterals marks the characters of the whole string that  *)
(* are outside every string literal as JavaScript reads literals (a        *)
(* backslash inside a literal takes the next character with it), and the   *)
(* closing parenthesis is the first ')' outside literals at which as many  *)
(* parentheses outside literals have closed as have opened.                *)
(***************************************************************************)
IsQuote(ch) == ch \in {SQ, DQ, BT}

RECURSIVE LiteralMap(_, _, _, _)
LiteralMap(str, i, mode, esc) ==
    IF i > Len(str) THEN <<>>
    ELSE LET ch == str[i] IN
         IF mode = "none"
         THEN IF IsQuote(ch) THEN <<FALSE>> \o LiteralMap(str, i + 1, ch, FALSE)
              ELSE <<TRUE>> \o LiteralMap(str, i + 1, "none", FALSE)
         ELSE IF esc THEN <<FALSE>> \o LiteralMap(str, i + 1, mode, FALSE)
         ELSE IF ch = BS THEN <<FALSE>> \o LiteralMap(str, i + 1, mode, TRUE)
         ELSE IF ch = mode THEN <<FALSE>> \o LiteralMap(str, i + 1, "none", FALSE)
         ELSE <<FALSE>> \o LiteralMap(str, i + 1, mode, FALSE)

OutsideLiterals(str) == LiteralMap(str, 1, "none", FALSE)

CountOutside(str, out, ch, a, b) == Cardinality({k \in a..b : str[k] = ch /\ out[k]})

ClosingParen(str, open) ==
    LET out == OutsideLiterals(str)
        cands == {j \in (open + 1)..Len(str) :
                     /\ str[j] = ")" /\ out[j]
                     /\ CountOutside(str, out, "(", open, j) = CountOutside(str, out, ")", open, j)}
    IN  IF cands = {} THEN NotFound ELSE CHOOSE j \in cands : \A k \in cands : j <= k

BalancedOutside(str) ==
    LET out == OutsideLiterals(str) IN
    /\ \A j \in 1..Len(str) :
          CountOutside(str, out, "(", 1, j) >= CountOutside(str, out, ")", 1, j)
    /\ CountOutside(str, out, "(", 1, Len(str)) = CountOutside(str, out, ")", 1, Len(str))

HasBackslash(str) == \E k \in 1..Len(str) : str[k] = BS

\* a backslash inside a literal, directly followed by that literal's quote
HasEscapedQuote(str, open) ==
    LET out == OutsideLiterals(str) IN
    \E k \in (open + 1)..(Len(str) - 2) :
        /\ str[k] = BS /\ IsQuote(str[k + 1])
        /\ ~out[k - 1] /\ ~out[k] /\ ~out[k + 1] /\ ~out[k + 2]
        /\ \E q \in (open + 1)..(k - 1) : str[q] = str[k + 1]

ScanDone == scanResult # <<>>

\* C3: on a string without backslashes whose parentheses outside literals are
\* balanced, findMatchingParen called on a '(' outside literals returns the
\* position of the ')' that closes it; parentheses inside single-quoted,
\* double-quoted and template literals do not count, at any nesting depth.
C3_ClosingParenNoBackslash ==
    (/\ ScanDone
     /\ ~HasBackslash(scanStr)
     /\ OutsideLiterals(scanStr)[scanOpen]
     /\ BalancedOutside(scanStr))
    => (/\ scanResult[1] # NotFound
        /\ scanResult[1] = ClosingParen(scanStr, scanOpen))

\* a nested call with a ')' inside a literal has been scanned to its true end
C3_Witness ==
    /\ ScanDone
    /\ ~HasBackslash(scanStr)
    /\ OutsideLiterals(scanStr)[scanOpen]
    /\ BalancedOutside(scanStr)
    /\ scanResult[1] = Len(scanStr)
    /\ \E k \in (scanOpen + 1)..(Len(scanStr) - 1) :
          scanStr[k] = ")" /\ ~OutsideLiterals(scanStr)[k]
    /\ \E k \in (scanOpen + 1)..(Len(scanStr) - 1) :
          scanStr[k] = "(" /\ OutsideLiterals(scanStr)[k]

\* C4 (as claimed): when a literal of the call holds a backslash-escaped
\* quote, the escaped quote does not end the literal, and findMatchingParen
\* still returns the position of the call's true closing ')'.
C4_EscapedQuoteKeepsLiteral ==
    (/\ ScanDone
     /\ OutsideLiterals(scanStr)[scanOpen]
     /\ BalancedOutside(scanStr)
     /\ HasEscapedQuote(scanStr, scanOpen))
    => scanResult[1] = ClosingParen(scanStr, scanOpen)

(***************************************************************************)
(* Properties of the runs (Spec).                                          *)
(***************************************************************************)
RunDone == pc = "done"
PatchRun == ~isRestore /\ ~isDryRun
ToolBackup == BackupOf(tool)

\* the run read the target, and content is what it would write (or wrote)
HoldsPatched ==
    /\ RunDone /\ ~isRestore /\ ~threw
    /\ tool = "subagent" => modelConfig.present

\* C1: on a native binary, whatever a patch run writes to the target has the
\* byte length of the content it read, and a run whose patched content has
\* another length ends with a non-zero exit code and writes nothing.
C1_NativeWriteKeepsLength ==
    (RunDone /\ isNativeBinary /\ ~isRestore)
    => /\ wrote => ByteLen(target) = ByteLen(hist.before)
       /\ target # hist.before => ByteLen(target) = ByteLen(hist.before)
       /\ (HoldsPatched /\ ByteLen(content) # ByteLen(hist.before))
            => (~wrote /\ target = hist.before /\ exitCode # <<0>>)

\* a native binary has been patched: other bytes, same length
C1_Witness ==
    /\ RunDone /\ isNativeBinary /\ PatchRun
    /\ wrote /\ exitCode = <<0>>
    /\ target # hist.before
    /\ ByteLen(target) = ByteLen(hist.before)

\* C5: a backup file comes into being only in a patch run that found none at
\* its backup path, as a copy of the target; once a backup file exists, no
\* run of any tool changes or deletes it.
C5_BackupWrittenOnce ==
    [][ /\ backup # NoFile => backup' = backup
        /\ sbackup # NoFile => sbackup' = sbackup
        /\ backup' # backup =>
              (tool \in {"thinking", "npm"} /\ PatchRun /\ backup' = <<target>>)
        /\ sbackup' # sbackup =>
              (tool = "subagent" /\ PatchRun /\ sbackup' = <<target>>) ]_vars

\* a patch run that found a backup has written the target, and the backup
\* still holds what the first patch run found
C5_Witness ==
    /\ RunDone /\ PatchRun /\ wrote
    /\ hist.hadBackup
    /\ ToolBackup # NoFile
    /\ ToolBackup = (IF tool = "subagent" THEN hist.sbackup ELSE hist.backup)
    /\ ToolBackup # <<hist.before>>

\* C6: a run writes patched content to the target only when a backup exists
\* at its tool's backup path.
C6_BackupBeforeWrite ==
    [][ ((wrote' /\ ~wrote) \/ (target' # target /\ ~isRestore'))
          => BackupOf(tool) # NoFile ]_vars

\* a patch run that found no backup has made one and then written the target
C6_Witness ==
    /\ RunDone /\ PatchRun /\ wrote
    /\ ~hist.hadBackup
    /\ ToolBackup = <<hist.before>>
    /\ target # hist.before

\* a --restore that did copy the backup, right after a patch run of its tool
\* that wrote the target and exited with 0
RestoredAfterPatch ==
    /\ RunDone /\ isRestore /\ ~isDryRun
    /\ exitCode = <<0>>
    /\ hist.follows

\* C7 (as claimed): after a successful patch run and the --restore of the
\* same tool, the target is what it was just before that patch run.
C7_RestoreUndoesLastPatch ==
    RestoredAfterPatch => target = hist.patchBefore

\* C7 (amended): that holds when the patch run found no backup at its backup
\* path, so that the backup it restores from is the one that run made.
C7_RestoreUndoesBackedUpPatch ==
    (RestoredAfterPatch /\ ~hist.patchHadBackup) => target = hist.patchBefore

\* a restore has undone the patch run that made the backup
C7_Witness ==
    /\ RestoredAfterPatch /\ ~hist.patchHadBackup
    /\ target = hist.patchBefore
    /\ target # hist.before

\* the span the rule's first replacement takes out of the source, and what goes
\* in its place; <<>> if the rule replaces nothing
FirstReplacement(source, r) ==
    IF r.fn \in ExactHelpers
    THEN IF Includes(source, r.search) THEN <<r.search, r.replacement>> ELSE <<>>
    ELSE LET p == RxSearch(source, r.rx.pat, 1) IN
         IF p = NotFound THEN <<>>
         ELSE LET m == SubSeq(source, p, p + Len(r.rx.pat) - 1) IN <<m, Build(r.tpl, m)>>

ReplacementLonger ==
    LET f == FirstReplacement(hist.before, rule) IN
    f # <<>> /\ ByteLen(f[2]) > ByteLen(f[1])

\* C2: on a native binary, replaceOnceExact, replaceRegexPreserveLength,
\* replaceRegexPreserveLengthNativeString and the apply loop of
\* patch-subagent-models throw when the replacement is longer than the span
\* it replaces; the run ends with a non-zero exit code and the target is
\* byte for byte what it was.
C2_LongerReplacementThrows ==
    (RunDone /\ rule # NoRule /\ isNativeBinary /\ ReplacementLonger)
    => (threw /\ exitCode # <<0>> /\ ~wrote /\ target = hist.before)

\* a regex helper has met a match shorter than its replacement and thrown
C2_Witness ==
    /\ RunDone /\ isNativeBinary /\ ReplacementLonger
    /\ rule.fn = "replaceRegexPreserveLengthNativeString"
    /\ threw /\ exitCode = <<1>>
    /\ target = hist.before

\* C8 (as claimed): after a patch run of patch-thinking or
\* patch-subagent-models has applied its rules, the next patch run under the
\* same configuration reports each of them as already applied, finds none of
\* them ready, and writes nothing.
C8_AppliedRulesStayApplied ==
    (RunDone /\ PatchRun /\ hist.follows /\ tool \in {"thinking", "subagent"})
    => /\ ~wrote
       /\ tool = "thinking" =>
            /\ ~plan.patch1Applied /\ ~plan.patch2Applied
            /\ hist.patchPlan.patch1Applied => plan.patch1AlreadyApplied
            /\ hist.patchPlan.patch2Applied => plan.patch2AlreadyApplied
       /\ tool = "subagent" =>
            \A n \in PatchNames : hist.patchPlan[n] = "ready" => plan[n] = "applied"

\* the run found none of its markers or patterns, and none of its
\* already-applied checks held
NothingFound ==
    CASE tool = "thinking" ->
            /\ ~plan.patch1Applied /\ ~plan.patch2Applied
            /\ ~plan.patch1AlreadyApplied /\ ~plan.patch2AlreadyApplied
      [] tool = "subagent" ->
            /\ modelConfig.present
            /\ \E n \in PatchNames : plan[n] = "notfound"
            /\ \A n \in PatchNames : plan[n] \in {"unset", "notfound"}
      [] tool = "npm" ->
            /\ Includes(hist.before, keyNeedle)
            /\ CallSpan(hist.before) = <<>>
      [] OTHER -> FALSE

\* C9 (as claimed): in each of the three tools, a patch run that finds none
\* of its markers or patterns, with its already-applied checks false, writes
\* nothing and ends with a non-zero exit code.
C9_UnrecognisedExitsNonZero ==
    (RunDone /\ PatchRun /\ NothingFound)
    => (~wrote /\ target = hist.before /\ exitCode # <<0>>)

\* the run found no rule to apply, and an already-applied signal fired
OnlyAlreadyApplied ==
    CASE tool = "thinking" ->
            /\ ~plan.patch1Applied /\ ~plan.patch2Applied
            /\ plan.patch1AlreadyApplied \/ plan.patch2AlreadyApplied
      [] tool = "subagent" ->
            /\ modelConfig.present
            /\ \A n \in PatchNames : plan[n] # "ready"
            /\ \E n \in PatchNames : plan[n] = "applied"
      [] tool = "npm" -> ~Includes(hist.before, keyNeedle)
      [] OTHER -> FALSE

\* C10: a run that finds no rule to apply while an already-applied signal or
\* the already-patched heuristic fires writes neither the target nor a backup
\* and ends with exit code 0.
C10_AlreadyAppliedExitsZero ==
    (RunDone /\ ~isRestore /\ OnlyAlreadyApplied)
    => /\ exitCode = <<0>>
       /\ ~wrote /\ ~threw
       /\ target = hist.before
       /\ backup = hist.backup /\ sbackup = hist.sbackup

\* patch-thinking, run again on a target its regex fallback has patched:
\* no replacement string of the table is in it, the heuristic alone fires
C10_Witness ==
    /\ RunDone /\ PatchRun /\ tool = "thinking"
    /\ hist.follows
    /\ OnlyAlreadyApplied
    /\ \A rep \in ThinkingReplacements : ~Includes(hist.before, rep)
    /\ exitCode = <<0>>

\* a step of a run of one of the tools in ts that was started with --dry-run
DryRunStepOf(ts) == tool' \in ts /\ isDryRun'

FilesUnchanged == target' = target /\ backup' = backup /\ sbackup' = sbackup

\* C11: no step of a --dry-run run of patch-npm-deprecation-warning, with or
\* without --restore, on a script or a native binary, changes the target or
\* a backup file.
C11_NpmDryRunWritesNothing ==
    [][DryRunStepOf({"npm"}) => FilesUnchanged]_vars

\* patch-npm-deprecation-warning --dry-run --restore has ended with 0 next to
\* a backup that differs from the target
C11_Witness ==
    /\ RunDone /\ tool = "npm" /\ isDryRun /\ isRestore
    /\ exitCode = <<0>>
    /\ backup # NoFile /\ backup # <<target>>
    /\ target = hist.before

\* C12 (as claimed): no step of a --dry-run run of patch-thinking or
\* patch-subagent-models, with or without --restore, changes the target or a
\* backup file.
C12_DryRunWritesNothing ==
    [][DryRunStepOf({"thinking", "subagent"}) => FilesUnchanged]_vars

(***************************************************************************)
(* detectClaudeTargetKind and resolveTarget (patch-thinking.js; the copy   *)
(* of detectClaudeTargetKind in patch-npm-deprecation-warning.js is the    *)
(* same).  A file is a sequence of bytes, each a number 0..255.            *)
(***************************************************************************)
ElfMagic == <<127, 69, 76, 70>>                \* 0x7F 'E' 'L' 'F'
PeMagic == <<77, 90>>                          \* 'M' 'Z'
MachOMagics ==                                 \* the values prefix.readUInt32BE(0) is compared with
    { <<254, 237, 250, 206>>, <<254, 237, 250, 207>>,
      <<207, 250, 237, 254>>, <<202, 254, 186, 190>> }
Shebang == <<35, 33>>                          \* '#!'

\* prefix[0] === b0 && prefix[1] === b1 && ... behind prefix.length >= n
StartsWith(bytes, head) ==
    /\ Len(bytes) >= Len(head)
    /\ \A k \in 1..Len(head) : bytes[k] = head[k]

\* the four bytes prefix.readUInt32BE(0) reads, most significant first
ReadUInt32BE(bytes) == SubSeq(bytes, 1, 4)

\* null if the file cannot be opened or read or nothing was read (the catch
\* and the bytesRead <= 0 test), else buf.subarray(0, bytesRead)
readFilePrefix(file, maxBytes) ==
    IF ~file.readable \/ file.bytes = <<>> THEN Null
    ELSE Some(SubSeq(file.bytes, 1, IF Len(file.bytes) < maxBytes THEN Len(file.bytes) ELSE maxBytes))

\* the checks of detectClaudeTargetKind behind readFilePrefix, shebang first
KindOfPrefix_ShebangFirst(prefix) ==
    IF prefix.null THEN "unknown"
    ELSE IF StartsWith(prefix.str, Shebang) THEN "js"
    ELSE IF \E k \in 1..Len(prefix.str) : prefix.str[k] = 0 THEN "native-binary"
    ELSE IF StartsWith(prefix.str, ElfMagic) THEN "native-binary"
    ELSE IF StartsWith(prefix.str, PeMagic) THEN "native-binary"
    ELSE IF Len(prefix.str) >= 4 /\ ReadUInt32BE(prefix.str) \in MachOMagics THEN "native-binary"
    ELSE "unknown"

\* the checks of detectClaudeTargetKind behind readFilePrefix
KindOfPrefix(prefix) ==
    IF prefix.null THEN "unknown"
    ELSE IF \E k \in 1..Len(prefix.str) : prefix.str[k] = 0 THEN "native-binary"
    ELSE IF StartsWith(prefix.str, ElfMagic) THEN "native-binary"
    ELSE IF StartsWith(prefix.str, PeMagic) THEN "native-binary"
    ELSE IF Len(prefix.str) >= 4 /\ ReadUInt32BE(prefix.str) \in MachOMagics THEN "native-binary"
    ELSE IF StartsWith(prefix.str, Shebang) THEN "js"
    ELSE "unknown"

detectClaudeTargetKind(file) ==
    IF file.endsWithJs THEN "js" ELSE KindOfPrefix(readFilePrefix(file, MaxBytes))

\* resolveTarget with an override path: null ("none") or the kind of the target
KeepKind_Any(detected) == detected

KeepKind(detected) == IF detected = "unknown" THEN "none" ELSE detected

resolveTarget(file) ==
    IF ~file.exists THEN "none" ELSE KeepKind(detectClaudeTargetKind(file))

(***************************************************************************)
(* SpecKind: patch-thinking started with --file on every file of at most   *)
(* MaxFileLen bytes over KindBytes, up to the point where the target is    *)
(* resolved or the run has ended for want of one.                          *)
(***************************************************************************)
KindBytes == {0, 127, 69, 76, 70, 77, 90, 35, 33, 97}

ProbeFiles ==
    StringsUpTo(KindBytes, MaxFileLen)
    \cup {m \o t : m \in MachOMagics \cup {<<254, 237, 250, 97>>},
                   t \in StringsUpTo({0, 97}, MaxFileLen - 3)}

KindInit ==
    /\ probe \in [exists : BOOLEAN, endsWithJs : BOOLEAN, readable : BOOLEAN, bytes : ProbeFiles]
    /\ ~probe.exists => (~probe.readable /\ probe.bytes = <<>>)
    /\ probeKind = <<>>
    /\ target = probe.bytes
    /\ kind = "unknown"
    /\ backup = NoFile
    /\ sbackup = NoFile
    /\ pc = "resolve"
    /\ tool = "thinking"
    /\ isDryRun = FALSE
    /\ isRestore = FALSE
    /\ modelConfig = NoConfig
    /\ content = <<>>
    /\ plan = NoPlan
    /\ exitCode = <<>>
    /\ threw = FALSE
    /\ wrote = FALSE
    /\ hist = [before |-> target, backup |-> NoFile, sbackup |-> NoFile,
               hadBackup |-> FALSE, follows |-> FALSE,
               patchBefore |-> <<>>, patchHadBackup |-> FALSE, patchPlan |-> NoPlan]
    /\ runs = 1
    /\ scanStr = <<>>
    /\ scanOpen = 0
    /\ scanResult = <<>>
    /\ configFiles = <<>>
    /\ configWarned = {}
    /\ call = NoCall
    /\ callResult = <<>>
    /\ twin = NoTwin
    /\ npmIn = <<>>
    /\ npmOut = <<>>
    /\ rule = NoRule

\* const target = resolveTarget(); if (!targetPath) { ...; process.exit(1) }
ResolveTarget ==
    /\ pc = "resolve"
    /\ probeKind' = IF probe.exists THEN <<detectClaudeTargetKind(probe)>> ELSE <<>>
    /\ IF resolveTarget(probe) = "none"
       THEN Exit(1, FALSE, FALSE) /\ UNCHANGED kind
       ELSE kind' = resolveTarget(probe) /\ Continue("idle")
    /\ UNCHANGED <<target, backup, sbackup, tool, isDryRun, isRestore, modelConfig, content,
                   plan, hist, runs, scanStr, scanOpen, scanResult, probe, configFiles, configWarned, call, callResult, twin, npmIn, npmOut, rule>>

KindNext == ResolveTarget

SpecKind == KindInit /\ [][KindNext]_vars

KindDone == probeKind # <<>>

HasMagic(bytes) ==
    \/ StartsWith(bytes, ElfMagic)
    \/ StartsWith(bytes, PeMagic)
    \/ \E m \in MachOMagics : StartsWith(bytes, m)

HasNul(bytes) == \E k \in 1..Len(bytes) : bytes[k] = 0

\* the file can be opened and read and is not empty
HasPrefix == probe.readable /\ probe.bytes # <<>>

\* C13: detectClaudeTargetKind answers "js" for a path ending in .js whatever
\* the file holds; else "native-binary" for a prefix with a NUL byte or an
\* ELF, PE or Mach-O magic number in front; else "js" for a prefix starting
\* with #!; else "unknown"; and never anything but these three values.
C13_KindDecidedInOrder ==
    KindDone =>
        /\ probeKind[1] \in {"js", "native-binary", "unknown"}
        /\ probe.endsWithJs => probeKind[1] = "js"
        /\ (~probe.endsWithJs /\ HasPrefix) =>
              probeKind[1] = (IF HasNul(probe.bytes) \/ HasMagic(probe.bytes) THEN "native-binary"
                              ELSE IF StartsWith(probe.bytes, Shebang) THEN "js"
                              ELSE "unknown")

\* a file that starts with #! and holds a NUL byte was called a native binary
C13_Witness ==
    /\ KindDone /\ ~probe.endsWithJs /\ HasPrefix
    /\ StartsWith(probe.bytes, Shebang) /\ HasNul(probe.bytes)
    /\ probeKind = <<"native-binary">>

\* C14: for a path that does not end in .js and names a file that cannot be
\* opened or read, or an empty file, detectClaudeTargetKind returns
\* "unknown" and throws nothing; the run then ends with a non-zero exit code
\* and has written no file.
C14_UnreadableIsUnknown ==
    (KindDone /\ ~probe.endsWithJs /\ ~HasPrefix)
    => /\ probeKind = <<"unknown">>
       /\ RunDone /\ exitCode # <<0>> /\ exitCode # <<>>
       /\ ~threw /\ ~wrote
       /\ target = probe.bytes /\ backup = NoFile /\ sbackup = NoFile

\* an existing file that cannot be read was given with --file
C14_Witness ==
    /\ KindDone /\ ~probe.endsWithJs /\ probe.exists /\ ~probe.readable
    /\ probe.bytes # <<>>
    /\ probeKind = <<"unknown">> /\ exitCode = <<1>>

(***************************************************************************)
(* SpecConfig: runs of patch-subagent-models on the installs of Init with  *)
(* every pair of configuration files, the files and the warnings written   *)
(* about them kept in the state.                                           *)
(***************************************************************************)
ConfigInit ==
    /\ kind \in {"js", "native-binary"}
    /\ \E i \in Installs :
          /\ i[1] = bannerSearchPattern_v2062 => kind = "js"
          /\ target = i[1] \o <<";">> \o i[2] \o <<";">> \o i[3]
    /\ backup = NoFile
    /\ sbackup = NoFile
    /\ NoRun
    /\ scanStr = <<>>
    /\ scanOpen = 0
    /\ scanResult = <<>>
    /\ probe = NoProbe
    /\ probeKind = <<>>
    /\ configFiles \in ConfigFilePairs
    /\ configWarned = {}
    /\ call = NoCall
    /\ callResult = <<>>
    /\ twin = NoTwin
    /\ npmIn = <<>>
    /\ npmOut = <<>>
    /\ rule = NoRule

\* SubagentStart with the configuration files of the state
ConfigStart ==
    /\ \E dry \in BOOLEAN : BeginRun("subagent", dry, FALSE, getModelConfiguration(configFiles))
    /\ configWarned' = ConfigWarnings(configFiles, 1)
    /\ IF ~modelConfig'.present
       THEN /\ content' = <<>>
            /\ plan' = NoPlan
            /\ Exit(0, FALSE, FALSE)
       ELSE /\ content' = target
            /\ plan' = patchResults(target, modelConfig')
            /\ IF isDryRun' THEN Exit(0, FALSE, FALSE)
               ELSE IF \A n \in PatchNames : plan'[n] # "ready" THEN Exit(0, FALSE, FALSE)
               ELSE Continue("backup")
    /\ UNCHANGED <<fileVars, scanStr, scanOpen, scanResult, probe, probeKind, configFiles, call, callResult, twin, npmIn, npmOut, rule>>

ConfigNext ==
    \/ ConfigStart
    \/ SubagentBackup
    \/ SubagentWrite

SpecConfig == ConfigInit /\ [][ConfigNext]_vars

IsMalformed(i) == configFiles[i].state = "malformed"
IsParsed(i) == configFiles[i].state = "parsed"

\* the pair of files with every malformed file taken away
WithoutMalformed ==
    [i \in 1..2 |-> IF IsMalformed(i) THEN AbsentFile ELSE configFiles[i]]

\* the first configuration file of the pair fs that holds a configuration
FirstConfigOf(fs) ==
    IF fs[1].state = "parsed" THEN fs[1].config
    ELSE IF fs[2].state = "parsed" THEN fs[2].config
    ELSE NoConfig

\* C15: a configuration file of patch-subagent-models that exists but holds
\* malformed JSON is warned about and otherwise counts as absent; if no other
\* configuration file parses, the run finds nothing configured, exits with
\* 0 and writes neither the target nor a backup.
C15_MalformedConfigIsAbsent ==
    (runs > 0 /\ \E i \in 1..2 : IsMalformed(i))
    => /\ modelConfig = FirstConfigOf(WithoutMalformed)
       /\ \A i \in 1..2 : (IsMalformed(i) /\ \A j \in 1..(i - 1) : ~IsParsed(j)) => i \in configWarned
       /\ (\A i \in 1..2 : ~IsParsed(i))
            => /\ RunDone /\ exitCode = <<0>> /\ ~threw /\ ~wrote
               /\ ~modelConfig.present
               /\ target = hist.before /\ backup = NoFile /\ sbackup = NoFile

\* a run that found one malformed configuration file and no other
C15_Witness ==
    /\ RunDone /\ tool = "subagent" /\ ~isDryRun
    /\ IsMalformed(1) /\ configFiles[2] = AbsentFile
    /\ configWarned = {1}
    /\ exitCode = <<0>>
    /\ Includes(target, PlanSearchPattern)

(***************************************************************************)
(* SpecCall: applyPatchToNativeBinary on binary contents that hold one     *)
(* call callee({...KEY...}) between a prefix and a suffix; the state keeps *)
(* where the call starts and ends.                                         *)
(***************************************************************************)
CallPrefixes == {<<>>, <<";">>, <<"x", ",">>, <<"x", "(", "{", "}", ")", ";">>, <<"(">>}
Callees == {<<"w">>, <<"x", ".", "w">>, <<"w", " ">>}
ArgsBefore == {<<>>, <<"x", ",">>, <<DQ, ")", DQ, ",">>, <<"x", "(", "{", "}", ")", ",">>}
ArgsBehind ==
    {<<>>, <<",", "x">>, <<",", DQ, ")", DQ>>, <<",", "x", "(", ")">>,
     <<",", DQ, BS, DQ, ")", DQ>>, <<",", DQ, BS, DQ, DQ>>}
CallSuffixes == {<<>>, <<";", "x">>, <<")", ";">>}

CallOf(pre, callee, before, behind, post) ==
    [text  |-> pre \o callee \o <<"(", "{">> \o before \o keyNeedle \o behind \o <<"}", ")">> \o post,
     start |-> Len(pre) + 1,
     end   |-> Len(pre) + Len(callee) + Len(before) + Len(behind) + 5]

CallInit ==
    /\ \E pre \in CallPrefixes, callee \in Callees, before \in ArgsBefore,
          behind \in ArgsBehind, post \in CallSuffixes :
          call = CallOf(pre, callee, before, behind, post)
    /\ callResult = <<>>
    /\ twin = NoTwin
    /\ npmIn = <<>>
    /\ npmOut = <<>>
    /\ target = call.text
    /\ kind = "native-binary"
    /\ backup = NoFile
    /\ sbackup = NoFile
    /\ NoRun
    /\ scanStr = <<>>
    /\ scanOpen = 0
    /\ scanResult = <<>>
    /\ probe = NoProbe
    /\ probeKind = <<>>
    /\ configFiles = <<>>
    /\ configWarned = {}
    /\ rule = NoRule

CallPatch ==
    /\ callResult = <<>>
    /\ callResult' = <<applyPatchToNativeBinary(call.text)>>
    /\ UNCHANGED <<scanStr, scanOpen, scanResult, probe, probeKind, configFiles, configWarned,
                   call, twin, npmIn, npmOut, fileVars, runVars, rule>>

CallNext == CallPatch

SpecCall == CallInit /\ [][CallNext]_vars

CallDone == callResult # <<>>

\* the content with the call overwritten by 0 and spaces
CallOverwritten ==
    Slice(call.text, 1, call.start - 1)
      \o <<"0">> \o Spaces(ByteLen(SubSeq(call.text, call.start, call.end)) - 1)
      \o Slice(call.text, call.end + 1, Len(call.text))

\* the call holds a backslash
CallHasBackslash == \E k \in call.start..call.end : call.text[k] = BS

\* C16: on a binary content holding a call callee({...KEY...}),
\* applyPatchToNativeBinary overwrites exactly the characters from the first
\* of the callee to the closing parenthesis of the call by 0 and spaces, and
\* changes no other byte.
C16_CallOverwrittenExactly ==
    CallDone
    => /\ ~callResult[1].threw /\ callResult[1].patched
       /\ callResult[1].next = CallOverwritten

\* the same for the calls that hold no backslash
CallWithoutBackslashOverwritten ==
    (CallDone /\ ~CallHasBackslash)
    => /\ ~callResult[1].threw /\ callResult[1].patched
       /\ callResult[1].next = CallOverwritten

\* the position of the redacted_thinking call site in the content the run read
GateAt == IndexOf(hist.before, <<"CR">>)

\* that content is case"redacted_thinking": + if(!A&&!B)return null; + return EXPR;
\* between some text in front and some text behind
HasGatedCase ==
    /\ rule \in GateRules
    /\ GateAt # NotFound
    /\ hist.before[GateAt + 1] \in Gate2

\* the same content with the gate left out, and in its place behind the
\* return expression as many spaces as the gate has characters on a native binary
GateRemoved ==
    Slice(hist.before, 1, GateAt) \o <<hist.before[GateAt + 2]>>
      \o (IF isNativeBinary THEN Spaces(Width(hist.before[GateAt + 1])) ELSE <<>>)
      \o Slice(hist.before, GateAt + 3, Len(hist.before))

C18_WritesOnlyChangedContent ==
    (RunDone /\ PatchRun /\ wrote) => target # hist.before

\* the same for patch-thinking and patch-npm-deprecation-warning alone
WritesOnlyChangedContentBut(ts) ==
    (RunDone /\ PatchRun /\ wrote /\ tool \notin ts) => target # hist.before

ThinkingAndNpmWriteOnlyChangedContent == WritesOnlyChangedContentBut({"subagent"})

(***************************************************************************)
(* SpecPair: every patch run of patch-thinking next to a twin that starts  *)
(* from the same files and flags and differs in one thing: the             *)
(* already-patched detector tells it the opposite.  The twin keeps its     *)
(* files in the record twin.                                               *)
(***************************************************************************)
PairInit ==
    /\ kind \in {"js", "native-binary"}
    /\ \E i \in Installs :
          /\ i[1] = bannerSearchPattern_v2062 => kind = "js"
          /\ target = i[1] \o <<";">> \o i[2] \o <<";">> \o i[3]
    /\ backup = NoFile
    /\ sbackup = NoFile
    /\ NoRun
    /\ NoScan
    /\ rule = NoRule

\* the twin after the checks and the first exits of the run
TwinStarted(dry, t, b, d) ==
    [pc       |-> IF dry \/ ~ThinkingProceeds(d) THEN "done" ELSE "backup",
     exitCode |-> IF dry THEN <<0>>
                  ELSE IF ~ThinkingProceeds(d) THEN <<ThinkingNothingToDo(d)>>
                  ELSE <<>>,
     target   |-> t,
     backup   |-> b,
     content  |-> t,
     plan     |-> d,
     wrote    |-> FALSE,
     threw    |-> FALSE]

PairStart ==
    /\ twin.pc \in {"idle", "done"}
    /\ ThinkingBegin
    /\ twin' = TwinStarted(isDryRun', target, backup,
                 DetectResultWith(target, isNativeBinary,
                                  patch2PlannedSteps(target, isNativeBinary),
                                  ~AlreadyPatchedHeuristic(target, isNativeBinary)))
    /\ UNCHANGED <<fileVars, scanStr, scanOpen, scanResult, probe, probeKind, configFiles,
                   configWarned, call, callResult, npmIn, npmOut, rule>>

TwinBackup ==
    /\ twin.pc = "backup"
    /\ twin' = [twin EXCEPT !.backup = ensureBackup(twin.backup, twin.target), !.pc = "apply"]
    /\ UNCHANGED <<fileVars, runVars, scanStr, scanOpen, scanResult, probe, probeKind,
                   configFiles, configWarned, call, callResult, npmIn, npmOut, rule>>

\* WriteOrFail on the files of the twin
TwinWritten(tw, r) ==
    IF r.threw
    THEN [tw EXCEPT !.pc = "done", !.exitCode = <<1>>, !.threw = TRUE]
    ELSE IF SizeChanged(isNativeBinary, r.out, ByteLen(tw.content))
    THEN [tw EXCEPT !.pc = "done", !.exitCode = <<1>>, !.content = r.out]
    ELSE [tw EXCEPT !.pc = "done", !.exitCode = <<0>>, !.content = r.out,
                    !.target = r.out, !.wrote = TRUE]

TwinWrite ==
    /\ twin.pc = "apply"
    /\ twin' = TwinWritten(twin, ThinkingApply(isNativeBinary, twin.content, twin.plan))
    /\ UNCHANGED <<fileVars, runVars, scanStr, scanOpen, scanResult, probe, probeKind,
                   configFiles, configWarned, call, callResult, npmIn, npmOut, rule>>

PairNext ==
    \/ PairStart
    \/ ThinkingBackup
    \/ ThinkingWrite
    \/ TwinBackup
    \/ TwinWrite

SpecPair == PairInit /\ [][PairNext]_vars

\* both runs of the pair have ended
PairDone == RunDone /\ twin.pc = "done"

\* the two runs have written the same, or both nothing
SameWrites ==
    /\ wrote = twin.wrote
    /\ target = twin.target
    /\ backup = twin.backup

\* C19 (as claimed): two runs of patch-thinking that differ only in the
\* answer of the already-patched detector write the target in the same
\* cases, and differ in nothing but the message they print.
C19_DetectorChangesMessageOnly ==
    PairDone => (SameWrites /\ exitCode = twin.exitCode /\ threw = twin.threw)

\* C19 (amended): two runs of patch-thinking that differ only in the answer
\* of the already-patched detector write the target and the backup in the
\* same cases and with the same content; they can differ in the message and
\* in the exit code.
C19_DetectorNeverDecidesWrite ==
    PairDone => (SameWrites /\ threw = twin.threw)

\* a pair in which the answer of the detector decided what the run found
C19_Witness ==
    /\ PairDone /\ PatchRun
    /\ plan.patch2AlreadyApplied # twin.plan.patch2AlreadyApplied
    /\ exitCode # twin.exitCode
    /\ target = twin.target /\ ~wrote

\* an exact rule with a replacement shorter than its search string has been
\* applied to a native binary that holds the search string
ShorterExact ==
    /\ RunDone /\ isNativeBinary
    /\ rule.fn \in ExactHelpers
    /\ ByteLen(rule.replacement) < ByteLen(rule.search)
    /\ Includes(hist.before, rule.search)

MatchOffset == IndexOf(hist.before, rule.search)

\* the target is the content read with the replacement at the match offset,
\* spaces up to the end of the matched span, and every other byte as it was
PaddedInPlace ==
    /\ Len(target) = Len(hist.before)
    /\ \A k \in 1..Len(target) :
          target[k] = IF k < MatchOffset \/ k >= MatchOffset + Len(rule.search)
                      THEN hist.before[k]
                      ELSE IF k < MatchOffset + Len(rule.replacement)
                      THEN rule.replacement[k - MatchOffset + 1]
                      ELSE " "

\* p is the string s followed by spaces up to length n
PadsTo(p, s, n) ==
    /\ ~p.null
    /\ Len(p.str) = n
    /\ \A k \in 1..n : p.str[k] = IF k <= Len(s) THEN s[k] ELSE " "

\* C20: on a native binary, replaceOnceExact with a replacement shorter than
\* the search string writes the replacement at the match offset, fills the
\* rest of the matched span with spaces and leaves every byte outside the
\* span as it was; padRightSpaces(s, n) is s followed by spaces up to
\* length n whenever s is not longer than n.
C20_ShorterReplacementPadded ==
    /\ ShorterExact => (~threw /\ wrote /\ PaddedInPlace)
    /\ (RunDone /\ rule.fn \in ExactHelpers /\ ByteLen(rule.replacement) <= ByteLen(rule.search))
         => PadsTo(padRightSpaces(rule.replacement, ByteLen(rule.search)),
                   rule.replacement, ByteLen(rule.search))

\* replaceOnceExact has put b and a space in place of ab in the middle of a binary
C20_Witness ==
    /\ ShorterExact /\ rule.fn = "replaceOnceExact"
    /\ rule.search = <<"a", "b">> /\ rule.replacement = <<"b">>
    /\ hist.before = <<"b", "a", "b">>
    /\ target = <<"b", "b", " ">>

(***************************************************************************)
(* SpecNpm: patchOnce, applyPatchToText and applyPatchToNativeBinary of    *)
(* patch-npm-deprecation-warning on the same content, for every content    *)
(* made of at most MaxFragments of the fragments below.                    *)
(***************************************************************************)
NpmFragments ==
    { <<"w", "(", "{", "KEY", "}", ")">>,
      <<",", "w", "(", "{", "KEY", "}", ")">>,
      <<",", " ", "w", " ", "(", "{", "KEY", "}", ")">>,
      <<"w", "(", "{", "x", "(", "{", "}", ")", ",", "KEY", "}", ")">>,
      <<"w", "(", "{", "KEY", ",", DQ, ")", DQ, "}", ")">>,
      <<"w", "(", "{", "KEY", ",", DQ, "}", ")">>,
      <<"w", "(", "{", "KEY", "}">>,
      <<"w", "(", "{", "KEY", ",", DQ, BS, DQ, ")", DQ, "}", ")">>,
      <<"{", "KEY", "}">>,
      <<"(", "{", "KEY", "}", ")">>,
      <<"x", "(", ",", "w", "(", "{", "KEY", "}", ")", "{", "KEY", "}", ")">>,
      <<";">>,
      <<"x">>,
      <<"w", "(", "{", "KEY", "}", ")", ";", "w", "(", "{", "KEY", "}", ")", ";",
        "w", "(", "{", "KEY", "}", ")", ";">> }

RECURSIVE NpmContents(_)
NpmContents(n) ==
    IF n = 0 THEN {<<>>}
    ELSE NpmContents(n - 1) \cup {f \o c : f \in NpmFragments, c \in NpmContents(n - 1)}

NpmInit ==
    /\ npmIn \in NpmContents(MaxFragments)
    /\ npmOut = <<>>
    /\ target = npmIn
    /\ kind = "js"
    /\ backup = NoFile
    /\ sbackup = NoFile
    /\ NoRun
    /\ scanStr = <<>>
    /\ scanOpen = 0
    /\ scanResult = <<>>
    /\ probe = NoProbe
    /\ probeKind = <<>>
    /\ configFiles = <<>>
    /\ configWarned = {}
    /\ call = NoCall
    /\ callResult = <<>>
    /\ twin = NoTwin
    /\ rule = NoRule

NpmCall ==
    /\ npmOut = <<>>
    /\ npmOut' = << [open   |-> openParenIndex(npmIn),
                     close  |-> closeParenIndex(npmIn),
                     span   |-> CallSpan(npmIn),
                     onceText   |-> patchOnceText(npmIn),
                     onceNative |-> patchOnceNative(npmIn),
                     text   |-> applyPatchToText(npmIn),
                     native |-> applyPatchToNativeBinary(npmIn),
                     selText   |-> SelectionsOf(FALSE, npmIn),
                     selNative |-> SelectionsOf(TRUE, npmIn)] >>
    /\ UNCHANGED <<scanStr, scanOpen, scanResult, probe, probeKind, configFiles, configWarned,
                   call, callResult, twin, npmIn, fileVars, runVars, rule>>

NpmNext == NpmCall

SpecNpm == NpmInit /\ [][NpmNext]_vars

NpmDone == npmOut # <<>>

\* the content from the chosen '(' on, as the scan reads it: a backslash is
\* a character like any other
WithoutEscapes(str) == [k \in 1..Len(str) |-> IF str[k] = BS THEN "x" ELSE str[k]]

ScannedPart == WithoutEscapes(SubSeq(npmIn, npmOut[1].open, Len(npmIn)))

\* the scan from the chosen '(' comes to the end of the content with the
\* nesting depth still above zero
ScanRunsOut ==
    /\ NpmDone
    /\ npmOut[1].open # NotFound
    /\ ClosingParen(ScannedPart, 1) = NotFound

\* C21: findMatchingParen returns -1 whenever its scan reaches the end of the
\* string before the nesting depth is back at zero, also when a string
\* literal opened behind the '(' is never closed; patchOnce then reports
\* did: false and returns the content as it was.
C21_ScanRunsOutNotPatched ==
    ScanRunsOut
    => /\ npmOut[1].close = NotFound
       /\ npmOut[1].onceText = NotPatched(npmIn)
       /\ npmOut[1].onceNative = NotPatched(npmIn)

\* a call whose string literal is never closed was left alone
C21_Witness ==
    /\ ScanRunsOut
    /\ npmIn = <<"w", "(", "{", "KEY", ",", DQ, "}", ")">>
    /\ npmOut[1].onceText = NotPatched(npmIn)
    /\ npmOut[1].onceNative = NotPatched(npmIn)

\* str with the positions from..to replaced by ins
Respliced(str, from, to, ins) ==
    SubSeq(str, 1, from - 1) \o ins \o SubSeq(str, to + 1, Len(str))

\* the comma in front of position p with nothing but whitespace between
CommaBefore(str, p) ==
    {j \in 1..(p - 1) : str[j] = "," /\ \A k \in (j + 1)..(p - 1) : str[k] = " "}

TextOnceDid == NpmDone /\ npmOut[1].onceText.did

\* C22: in script mode patchOnce deletes the comma together with callee(...)
\* and inserts nothing when the callee is preceded, after optional
\* whitespace, by a comma; otherwise it replaces callee(...) by 'void 0';
\* every character outside the removed span stays as it was.
C22_TextRemovesCallOnly ==
    TextOnceDid
    => IF CommaBefore(npmIn, npmOut[1].span[1]) = {}
       THEN npmOut[1].onceText.next
              = Respliced(npmIn, npmOut[1].span[1], npmOut[1].span[2], <<"void", " ", "0">>)
       ELSE \A j \in CommaBefore(npmIn, npmOut[1].span[1]) :
              npmOut[1].onceText.next = Respliced(npmIn, j, npmOut[1].span[2], <<>>)

\* a call behind a comma and whitespace was removed with its comma, the
\* content behind it kept
C22_Witness ==
    /\ TextOnceDid
    /\ npmIn = <<",", " ", "w", " ", "(", "{", "KEY", "}", ")", ";">>
    /\ npmOut[1].onceText.next = <<";">>

(***************************************************************************)
(* SpecFallback: the two exact call-site rules of v2.1.14 and the regex    *)
(* fallback behind them, on script bundles put together from call sites    *)
(* the exact rules know, call sites only the regexes match, and call       *)
(* sites that are rewritten already.                                       *)
(***************************************************************************)
FallbackSites ==
    { redactedThinkingCallsiteSearchPattern_v21114,
      <<"CR", "Gab", "Rab">>,
      thinkingCallsiteSearchPattern_v21114,
      <<"CT", "{", "Gab", "RET", "Pab", "a", "VK", "b", "HK", "Hab", "END">>,
      <<"CR", "R14">>,
      <<"CT", "{", "RET", "P14", "!0", "VK", "Z", "HK", "!1", "END">>,
      <<";">> }

RECURSIVE FallbackBundles(_)
FallbackBundles(n) ==
    IF n = 0 THEN {<<>>}
    ELSE FallbackBundles(n - 1) \cup {f \o c : f \in FallbackSites, c \in FallbackBundles(n - 1)}

FallbackInit ==
    /\ kind = "js"
    /\ \E version \in {<<>>, VERSION_2_1_14}, b \in FallbackBundles(MaxFragments) :
          target = version \o b
    /\ backup = <<target>>
    /\ sbackup = NoFile
    /\ pc = "exact"
    /\ tool = "thinking"
    /\ isDryRun = FALSE
    /\ isRestore = FALSE
    /\ modelConfig = NoConfig
    /\ content = target
    /\ plan = NoPlan
    /\ exitCode = <<>>
    /\ threw = FALSE
    /\ wrote = FALSE
    /\ hist = [before |-> target, backup |-> NoFile, sbackup |-> NoFile,
               hadBackup |-> FALSE, follows |-> FALSE,
               patchBefore |-> <<>>, patchHadBackup |-> FALSE, patchPlan |-> NoPlan]
    /\ runs = 1
    /\ NoScan
    /\ rule = NoRule

\* the two exact replacements of the v2.1.14 call sites, in the order of the source
ExactRules14(isNative, c) ==
    Bind(ExactStep(isNative, c, redactedThinkingCallsiteSearchPattern_v21114,
                   redactedThinkingCallsiteReplacement_v21114),
         LAMBDA t : ExactStep(isNative, t, thinkingCallsiteSearchPattern_v21114,
                              thinkingCallsiteReplacement_v21114))

FallbackStep(r, step) ==
    IF r.threw THEN Exit(1, TRUE, FALSE) /\ UNCHANGED content
    ELSE content' = r.out /\ Continue(step)

ExactFirst ==
    /\ pc = "exact"
    /\ FallbackStep(ExactRules14(isNativeBinary, content), "regex")
    /\ UNCHANGED <<fileVars, tool, isDryRun, isRestore, modelConfig, plan, hist, runs,
                   scanVars, rule>>

RegexAfter ==
    /\ pc = "regex"
    /\ FallbackStep(RegexFallback14(isNativeBinary, content), "fallback-done")
    /\ UNCHANGED <<fileVars, tool, isDryRun, isRestore, modelConfig, plan, hist, runs,
                   scanVars, rule>>

FallbackNext == ExactFirst \/ RegexAfter

SpecFallback == FallbackInit /\ [][FallbackNext]_vars

Occurrences(s, pat) == {p \in 1..Len(s) : MatchAt(s, pat, p)}

ExactRules14Table ==
    { [search |-> redactedThinkingCallsiteSearchPattern_v21114,
       replacement |-> redactedThinkingCallsiteReplacement_v21114],
      [search |-> thinkingCallsiteSearchPattern_v21114,
       replacement |-> thinkingCallsiteReplacement_v21114] }

FallbackRegexes == {redactedThinkingCallsiteRegex_v21114, thinkingCallsiteRegex_v21114}

\* a fallback regex matches text that overlaps a call site in its rewritten form
RewrittenSiteMatched(c) ==
    \E r \in ExactRules14Table, rx \in FallbackRegexes :
      \E p \in Occurrences(c, r.replacement), q \in 1..Len(c) :
          /\ RxMatchAt(c, rx.pat, q)
          /\ p < q + Len(rx.pat)
          /\ q < p + Len(r.replacement)

RestoreDone == RunDone /\ isRestore

BackupsUnchanged == backup = hist.backup /\ sbackup = hist.sbackup

\* C24: in each of the three tools, --restore without a backup file ends
\* with exit code 1 and leaves the target as it was; --restore with a backup
\* file and without --dry-run leaves the target byte-identical to the
\* backup and leaves the backup as it was.
C24_RestoreCopiesBackup ==
    RestoreDone
    => IF ~hist.hadBackup
       THEN exitCode = <<1>> /\ target = hist.before /\ BackupsUnchanged
       ELSE ~isDryRun => (<<target>> = ToolBackup /\ BackupsUnchanged)

\* patch-subagent-models --restore has put back a target that differed from
\* its backup
C24_Witness ==
    /\ RestoreDone /\ ~isDryRun /\ tool = "subagent"
    /\ hist.hadBackup
    /\ target # hist.before
    /\ <<target>> = sbackup /\ sbackup = hist.sbackup

(***************************************************************************)
(* Which call patchOnce takes for the call that holds the marker           *)
(***************************************************************************)
OnceDid == NpmDone /\ (npmOut[1].onceText.did \/ npmOut[1].onceNative.did)

\* the marker patchOnce started from lies inside the span callee..')'
SpanHoldsKey ==
    /\ npmOut[1].span[1] <= IndexOf(npmIn, keyNeedle)
    /\ IndexOf(npmIn, keyNeedle) <= npmOut[1].span[2]

\* C25 (as claimed): whenever patchOnce, of the text or of the native mode,
\* reports did: true, the span it removed or overwrote contains the
\* occurrence of the marker it started from, also when another call f({...})
\* stands inside the argument in front of the marker.
C25_RemovedSpanHoldsKey == OnceDid => SpanHoldsKey

\* how many '({' stand in front of the first marker
OpeningsBeforeKey ==
    Cardinality(Occurrences(Slice(npmIn, 1, IndexOf(npmIn, keyNeedle)), <<"(", "{">>))

\* with one '({' in front of the marker, the span holds the marker
SpanHoldsKeyBehindOneOpening ==
    (OnceDid /\ OpeningsBeforeKey = 1) => SpanHoldsKey

(***************************************************************************)
(* What the loops around patchOnce leave of the marker                     *)
(***************************************************************************)
\* C26 (as claimed): whenever applyPatchToText or applyPatchToNativeBinary
\* returns patched = true, its output holds no occurrence of the marker,
\* however many the input held, so that the next run finds nothing to do.
C26_PatchedLeavesNoKey ==
    NpmDone
    => /\ npmOut[1].text.patched => ~Includes(npmOut[1].text.next, keyNeedle)
       /\ npmOut[1].native.patched => ~Includes(npmOut[1].native.next, keyNeedle)

\* up to PatchLoopBound markers, each in a call of its own with nothing
\* but the marker as argument: none is left
CallsOfMarkerOnly ==
    /\ Cardinality(Occurrences(npmIn, keyNeedle)) <= PatchLoopBound
    /\ \A p \in Occurrences(npmIn, keyNeedle) :
          /\ p >= 4 /\ p + 2 <= Len(npmIn)
          /\ SubSeq(npmIn, p - 3, p + 2) = <<"w", "(", "{", "KEY", "}", ")">>

PatchedCallsOfMarkerOnlyLeaveNoKey ==
    (NpmDone /\ CallsOfMarkerOnly)
    => /\ ~Includes(npmOut[1].text.next, keyNeedle)
       /\ ~Includes(npmOut[1].native.next, keyNeedle)

(***************************************************************************)
(* What a --restore does to the work of the other tools                    *)
(***************************************************************************)
Tools == {"thinking", "subagent", "npm"}

\* the tokens of the target that only the bundle code of one tool holds
TokensOf(t) ==
    CASE t = "subagent" -> {"EX", "EE", "PL", "GP", "GW", "GM", "haiku", "sonnet", "opus", "$&"}
      [] t = "npm" -> {"KEY", "w", "x", "(", ")", "void", "0"}
      [] t = "thinking" ->
            {"V14", "CR", "CT", "RET", "VK", "HK", "END", "BF", "BB", "BN", "!0", "!1"}
            \cup GateLike \cup RedactedReturn \cup CreatePrefix \cup Idents \cup HideValue

InTokensOf(t, x) == x \in TokensOf(t)

\* the part of a file that belongs to tool t
PartOf(file, t) == SelectSeq(file, LAMBDA x : InTokensOf(t, x))

Restored == RestoreDone /\ ~isDryRun /\ exitCode = <<0>>

\* C27 (as claimed): however patch and --restore runs of the three tools
\* follow each other on one target, a --restore of one tool takes back the
\* changes of that tool only: what the other tools have patched is still
\* patched behind the restore.
C27_RestoreKeepsOtherTools ==
    Restored => \A u \in Tools \ {tool} : PartOf(target, u) = PartOf(hist.before, u)

(***************************************************************************)
(* patch-subagent-models run again with another model                      *)
(***************************************************************************)
\* the model of the Plan agent in a file: what stands behind model:" in
\* its definition
PlanModelOf(file) == file[IndexOf(file, <<"PL">>) + 1]

HasPlan(file) == Includes(file, <<"PL">>) /\ IndexOf(file, <<"PL">>) < Len(file)

\* a patch run of patch-subagent-models with a model for the Plan agent has ended
PlanRunDone ==
    /\ RunDone /\ tool = "subagent" /\ ~isRestore /\ ~isDryRun
    /\ modelConfig.Plan # <<>>

\* ... on a target in which an earlier run had put a model m1 in place of
\* the one of the backup, the run asking for another model m2
PlanRunAfterPlanRun ==
    /\ PlanRunDone
    /\ hist.sbackup # NoFile
    /\ HasPlan(hist.before) /\ HasPlan(hist.sbackup[1])
    /\ PlanModelOf(hist.before) # PlanModelOf(hist.sbackup[1])
    /\ PlanModelOf(hist.before) # modelConfig.Plan[1]

\* C28 (as claimed): after a patch run of patch-subagent-models has set the
\* model of the Plan agent to m1, a later run configured with another model
\* m2 still changes it, with no --restore in between: the rule is reported
\* ready and the target ends with m2.
C28_LaterRunChangesModel ==
    PlanRunAfterPlanRun
    => /\ plan.Plan = "ready"
       /\ PlanModelOf(target) = modelConfig.Plan[1]

\* on a target that holds the built-in model of the Plan agent, the rule is
\* ready, and a run that ends with 0 leaves the replacement of the rule
PlanChangedFromBuiltIn ==
    (PlanRunDone /\ Includes(hist.before, PlanSearchPattern))
    => /\ plan.Plan = "ready"
       /\ (wrote /\ modelConfig.Plan # <<"$&">>) => Includes(target, PlanReplacement(modelConfig))

(***************************************************************************)
(* patch-subagent-models: from 'Ready to apply' to the written target      *)
(***************************************************************************)
\* a run of patch-subagent-models without --dry-run whose detection has
\* reported a rule ready has ended
ReadyRunDone ==
    /\ RunDone /\ tool = "subagent" /\ ~isRestore /\ ~isDryRun
    /\ modelConfig.present
    /\ \E n \in PatchNames : plan[n] = "ready"

\* C29 (as claimed): in patch-subagent-models a run without --dry-run
\* applies and writes every rule its detection has reported ready, on a
\* script and on a native binary alike; no run makes the backup and then
\* ends without writing the target.
C29_ReadyRulesAreWritten ==
    ReadyRunDone => wrote /\ exitCode = <<0>> /\ ~threw

\* on a script, where no replacement is padded, that holds
ReadyRulesOfScriptAreWritten ==
    (ReadyRunDone /\ kind = "js") => wrote /\ exitCode = <<0>> /\ ~threw

(***************************************************************************)
(* The two loops next to each other                                        *)
(***************************************************************************)
\* C30 (as claimed): on every content the loops of applyPatchToText and of
\* applyPatchToNativeBinary select, turn by turn, the same callee start and
\* the same closing parenthesis; they differ in what they put in place of
\* the call only.
C30_SelectedAlike ==
    NpmDone => npmOut[1].selText = npmOut[1].selNative

\* what ends a call so that nothing left of it can join what follows
Separators == {";", ",", ")", "}"}

\* every call the native loop selects is followed by a separator or by the
\* end of the content
SeparatedCalls ==
    \A k \in 1..Len(npmOut[1].selNative) :
        \/ npmOut[1].selNative[k][2] = Len(npmIn)
        \/ npmIn[npmOut[1].selNative[k][2] + 1] \in Separators

\* C30 (amended): that holds on the contents in which every selected call
\* is directly followed by a separator or by the end.
C30_SeparatedCallsSelectedAlike ==
    (NpmDone /\ SeparatedCalls) => npmOut[1].selText = npmOut[1].selNative

\* a call inside the argument of the call that holds the marker: both loops
\* took the inner call first and the outer call next
C30_Witness ==
    /\ NpmDone /\ SeparatedCalls
    /\ npmIn = <<"w", "(", "{", "x", "(", "{", "}", ")", ",", "KEY", "}", ")", ";">>
    /\ npmOut[1].selText = << <<4, 8>>, <<1, 12>> >>
    /\ npmOut[1].selNative = << <<4, 8>>, <<1, 12>> >>

====
